---- MODULE Spec2Model ----
(***************************************************************************)
(* A model of the whh32-back REST API: user registration / login and the   *)
(* ownership-scoped "items" resource, in its three persistence variants    *)
(* (Prisma ORM, raw PostgreSQL, raw SQL Server).                           *)
(*                                                                         *)
(* A request is a process: it advances one database statement at a time    *)
(* (each `await repository.x()` of the source is one atomic step at the    *)
(* database), so requests of different clients interleave between their    *)
(* statements exactly where the source awaits.  Everything a handler does  *)
(* synchronously around a statement (middleware, hashing, token signing,   *)
(* building the response) belongs to the step of that statement.           *)
(***************************************************************************)
EXTENDS Integers, Sequences, FiniteSets, TLC

VARIABLES
    variant,     \* which implementation serves: "prisma", "pg" or "mssql"
    config,      \* the deployment: process.env.NODE_ENV and JWT_SECRET, the
                 \* database collation
    db,          \* the database module: its pool, how many times a pool was
                 \* created, how many of the pool's connections are in use
    now,         \* the server clock
    users,       \* table users: id -> row
    nextUserId,  \* the users id sequence (SERIAL / IDENTITY / autoincrement)
    items,       \* table items: id -> row
    nextItemId,  \* the items id sequence (SERIAL / IDENTITY / autoincrement)
    issued,      \* tokens handed out so far by register / login
    reqs         \* the requests in flight, one per client

vars == <<variant, config, db, now, users, nextUserId, items, nextItemId, issued, reqs>>

----------------------------------------------------------------------------
(* Bounds of the model *)

\* the clock stops ticking here
MaxTime == 2
\* the items id sequence hands out ids 1..MaxItems
MaxItems == 1
\* the users id sequence hands out ids 1..MaxUsers
MaxUsers == 2

\* a preloaded items table holds up to MaxRows rows
MaxRows == 3
\* listPage is asked for pages 1..MaxPage of 1..MaxLimit rows
MaxPage == 2
MaxLimit == 2

(* Program constants *)

\* findWithPagination(page = 1, limit = 10)
DefaultPage == 1
DefaultLimit == 10

\* expiresIn: '24h', counted in ticks of the model's clock
TTL == 2

Variants == {"prisma", "pg", "mssql"}
Clients == {"c1", "c2"}
Visitors == {"v1"}
Shoppers == {"s1"}
\* two callers of listPage reading pages of the same table
Browsers == {"b1", "b2"}
\* a session of user 1 that writes the query string by hand
Crawlers == {"k1"}
\* two sessions of user 1 whose requests reach the database module
Callers == {"q1", "q2"}

NULL == "null"
\* a timestamp column holding NULL
NoTime == -1
\* an absent value (undefined, no body, no response yet)
Absent == <<>>

\* the value the README's .env gives to JWT_SECRET
JWT_SECRET == "secret"

\* the deployment the README prescribes for production: NODE_ENV=production,
\* JWT_SECRET set, a database whose default collation ignores letter case
Production ==
    [NODE_ENV |-> "production", JWT_SECRET |-> JWT_SECRET, collation |-> "CI"]

\* new Pool({ max: 10, ... }), pool: { max: 10, ... }
PoolMax == 10

\* the database module once the process has loaded it: the Prisma singleton
\* creates its pool in the constructor, the Database classes start without
NewDatabase(v) ==
    IF v = "prisma" THEN [pool |-> "open", created |-> 1, inUse |-> 0]
    ELSE [pool |-> "none", created |-> 0, inUse |-> 0]

----------------------------------------------------------------------------
(* Errors and the response envelope *)

\* an entry of the log: req tells whether the call was given req.method and
\* req.path
LogEntry(level, message, req) == [level |-> level, message |-> message, req |-> req]

\* the entries logged while a response was made
LogOf(res) == IF "log" \in DOMAIN res THEN res.log ELSE <<>>

\* a response together with the entries logged before it was sent
Logged(entries, res) ==
    [status |-> res.status, body |-> res.body, log |-> entries \o LogOf(res)]

\* logger.error('Error:', { message, stack, path, method }) of the error
\* middleware
ErrorLog(err) == LogEntry("error", err.message, TRUE)

\* console.error(err.stack) of the in-memory server
ConsoleError(err) == LogEntry("error", err.message, FALSE)

\* logger.error('Authentication error:', error) of the authentication gate
AuthenticationErrorLog == LogEntry("error", "Authentication error:", FALSE)

\* logger.error('Error in ... service:', error) of a service's catch
ServiceErrorLog == LogEntry("error", "Error in service:", FALSE)

\* new AppError(message, statusCode): an operational error carrying a status
AppError(message, statusCode) ==
    [name |-> "AppError", message |-> message, statusCode |-> statusCode,
     code |-> NULL, isOperational |-> TRUE]

\* new Error(message): no statusCode, no code
Error(message) ==
    [name |-> "Error", message |-> message, statusCode |-> 0,
     code |-> NULL, isOperational |-> FALSE]

\* a failure thrown by a library or driver: name and code as the library sets
LibError(name, code, message) ==
    [name |-> name, message |-> message, statusCode |-> 0,
     code |-> code, isOperational |-> FALSE]

\* fault: the failure envelope reports success
Fail_successTrue(status, message) ==
    [status |-> status, body |-> [success |-> TRUE, message |-> message]]

Fail(status, message) ==
    [status |-> status, body |-> [success |-> FALSE, message |-> message]]

Ok(status, message, data) ==
    [status |-> status,
     body |-> [success |-> TRUE, message |-> message, data |-> data]]

\* fault: the stack is attached whatever NODE_ENV says
WithStack_always(res, err) ==
    [res EXCEPT !.body =
        [success |-> FALSE, message |-> res.body.message,
         stack |-> err.name \o ": " \o err.message \o " at ..."]]

\* ...(process.env.NODE_ENV === 'development' && { stack: err.stack })
WithStack(res, err) ==
    IF config.NODE_ENV = "development"
        THEN [res EXCEPT !.body =
                 [success |-> FALSE, message |-> res.body.message,
                  stack |-> err.name \o ": " \o err.message \o " at ..."]]
    ELSE res

\* ...(process.env.NODE_ENV === 'development' && { details, code })
WithDetails(res, err) ==
    IF config.NODE_ENV = "development"
        THEN [res EXCEPT !.body =
                 [success |-> FALSE, message |-> res.body.message,
                  details |-> err.message, code |-> err.code]]
    ELSE res

\* ...(process.env.NODE_ENV === 'development' && { details: 'Cannot connect
\* to database. ...' })
WithHint(res) ==
    IF config.NODE_ENV = "development"
        THEN [res EXCEPT !.body =
                 [success |-> FALSE, message |-> res.body.message,
                  details |-> "Cannot connect to database."]]
    ELSE res

\* err.statusCode || 500
StatusOrDefault(err) == IF err.statusCode # 0 THEN err.statusCode ELSE 500

\* err.message || 'Internal server error'
MessageOrDefault(err) ==
    IF err.message = "" THEN "Internal server error" ELSE err.message

\* the default branch the three error middlewares share
DefaultError(err) ==
    WithStack(Fail(StatusOrDefault(err), MessageOrDefault(err)), err)

\* ErrorHandler.handle of the Prisma variant (common/errors/ErrorHandler.js)
ErrorHandler_handle(err) ==
  Logged(<<ErrorLog(err)>>,
    IF err.code = "P2002"
        THEN Fail(409, "Duplicate entry. This record already exists.")
    ELSE IF err.code = "P2025"
        THEN Fail(404, "Record not found.")
    ELSE IF err.code \in {"ECONNREFUSED", "P1001", "P1000"}
        THEN WithDetails(Fail(500, "Database connection error"), err)
    ELSE IF err.message = "connect ECONNREFUSED"
        THEN WithHint(Fail(500, "Database connection error"))
    ELSE IF err.name = "ValidationError"
        THEN Fail(400, err.message)
    ELSE IF err.name = "JsonWebTokenError"
        THEN Fail(401, "Invalid token.")
    ELSE IF err.name = "TokenExpiredError"
        THEN Fail(401, "Token has expired.")
    ELSE IF err.name = "AppError" /\ err.isOperational
        THEN Fail(err.statusCode, err.message)
    ELSE DefaultError(err))

\* errorHandler of the PostgreSQL variant (middleware/errorHandler.js)
errorHandler(err) ==
  Logged(<<ErrorLog(err)>>,
    IF err.code = "ECONNREFUSED"
        THEN Fail(500, "Database connection error")
    ELSE IF err.name = "ValidationError"
        THEN Fail(400, err.message)
    ELSE DefaultError(err))

\* errorHandler of the SQL Server variant
errorHandler_mssql(err) ==
  Logged(<<ErrorLog(err)>>,
    IF err.code = "ELOGIN"
        THEN Fail(500, "Database connection error")
    ELSE IF err.code = "ETIMEOUT"
        THEN Fail(504, "Database query timeout")
    ELSE IF err.name = "ValidationError"
        THEN Fail(400, err.message)
    ELSE DefaultError(err))

\* the error middleware of the in-memory server
errorHandler_memory(err) ==
  Logged(<<ConsoleError(err)>>,
    [status |-> 500,
     body |-> IF config.NODE_ENV = "development"
                  THEN [success |-> FALSE, message |-> "Something went wrong!",
                        error |-> err.message]
              ELSE [success |-> FALSE, message |-> "Something went wrong!"]])

\* next(error): the error middleware the variant's server registers
NextError(v, err) ==
    CASE v = "prisma" -> ErrorHandler_handle(err)
      [] v = "pg"     -> errorHandler(err)
      [] OTHER        -> errorHandler_mssql(err)

----------------------------------------------------------------------------
(* Tokens: jsonwebtoken's sign / verify over the shared secret *)

\* the HMAC of a payload under a key: equal only for equal payload and key
Hmac(payload, key) == <<key, payload>>

\* jwt.sign throws when process.env.JWT_SECRET is not set
SigningError == Error("secretOrPrivateKey must have a value")

\* whether generateToken returns: jwt.sign has a key to sign with
CanSign == config.JWT_SECRET # NULL

\* jwt.sign({id, username, email}, secret, {expiresIn}): iat and exp are added
jwt_sign(claims, secret, clock) ==
    LET payload == [id |-> claims.id, username |-> claims.username,
                    email |-> claims.email, iat |-> clock, exp |-> clock + TTL]
    IN  [payload |-> payload, signature |-> Hmac(payload, secret)]

\* fault: the email claim is filled from the username
generateToken_wrongClaim(user, clock) ==
    jwt_sign([id |-> user.id, username |-> user.username, email |-> user.username],
             config.JWT_SECRET, clock)

\* fault: the id claim names the row after the user's
generateToken_nextId(user, clock) ==
    jwt_sign([id |-> user.id + 1, username |-> user.username, email |-> user.email],
             config.JWT_SECRET, clock)

\* AuthService.generateToken(user)
generateToken(user, clock) ==
    jwt_sign([id |-> user.id, username |-> user.username, email |-> user.email],
             config.JWT_SECRET, clock)

\* jwt.verify(token, secret): structure, then signature, then expiry
jwt_verify(token, secret, clock) ==
    IF "payload" \notin DOMAIN token
        THEN [ok |-> FALSE,
              err |-> LibError("JsonWebTokenError", NULL, "jwt malformed")]
    ELSE IF secret = NULL
        THEN [ok |-> FALSE,
              err |-> LibError("JsonWebTokenError", NULL,
                               "secret or public key must be provided")]
    ELSE IF token.signature # Hmac(token.payload, secret)
        THEN [ok |-> FALSE,
              err |-> LibError("JsonWebTokenError", NULL, "invalid signature")]
    ELSE IF clock >= token.payload.exp
        THEN [ok |-> FALSE,
              err |-> LibError("TokenExpiredError", NULL, "jwt expired")]
    ELSE [ok |-> TRUE, decoded |-> token.payload]

\* a token nobody signed with the server's secret
Forged(token) ==
    [payload |-> token.payload, signature |-> Hmac(token.payload, "guess")]

\* a string that is no token at all
Malformed == [garbage |-> TRUE]

(* The Authorization header: absent, or <scheme> <credentials> *)
NoHeader == Absent
Header(scheme, credentials) == [scheme |-> scheme, credentials |-> credentials]
Bearer(token) == Header("Bearer", <<token>>)

\* AuthMiddleware.authenticate (Prisma variant): failures go to next(error)
AuthMiddleware_authenticate(header, clock) ==
    IF header = Absent \/ header.scheme # "Bearer"
        THEN [ok |-> FALSE,
              res |-> ErrorHandler_handle(
                          AppError("No token provided. Authorization denied.", 401))]
    ELSE IF header.credentials = <<>>
        THEN [ok |-> FALSE,
              res |-> ErrorHandler_handle(AppError("Invalid token format.", 401))]
    ELSE LET v == jwt_verify(header.credentials[1], config.JWT_SECRET, clock)
         IN  IF v.ok THEN [ok |-> TRUE, user |-> v.decoded]
             ELSE IF v.err.name = "JsonWebTokenError"
                 THEN [ok |-> FALSE,
                       res |-> Logged(<<AuthenticationErrorLog>>,
                                   ErrorHandler_handle(AppError("Invalid token.", 401)))]
             ELSE IF v.err.name = "TokenExpiredError"
                 THEN [ok |-> FALSE,
                       res |-> Logged(<<AuthenticationErrorLog>>,
                                   ErrorHandler_handle(
                                       AppError("Token has expired.", 401)))]
             ELSE [ok |-> FALSE,
                   res |-> Logged(<<AuthenticationErrorLog>>,
                               ErrorHandler_handle(
                                   AppError("Server error during authentication.",
                                            500)))]

\* authMiddleware (SQL variants): failures are answered in place
authMiddleware(header, clock) ==
    IF header = Absent \/ header.scheme # "Bearer"
        THEN [ok |-> FALSE,
              res |-> Fail(401, "No token provided. Authorization denied.")]
    ELSE IF header.credentials = <<>>
        THEN [ok |-> FALSE, res |-> Fail(401, "Invalid token format.")]
    ELSE LET v == jwt_verify(header.credentials[1], config.JWT_SECRET, clock)
         IN  IF v.ok THEN [ok |-> TRUE, user |-> v.decoded]
             ELSE IF v.err.name = "JsonWebTokenError"
                 THEN [ok |-> FALSE,
                       res |-> Logged(<<AuthenticationErrorLog>>,
                                   Fail(401, "Invalid token."))]
             ELSE IF v.err.name = "TokenExpiredError"
                 THEN [ok |-> FALSE,
                       res |-> Logged(<<AuthenticationErrorLog>>,
                                   Fail(401, "Token has expired."))]
             ELSE [ok |-> FALSE,
                   res |-> Logged(<<AuthenticationErrorLog>>,
                               Fail(500, "Server error during authentication."))]

\* fault: the gate reads the token with jwt.decode, checking neither the
\* signature nor the expiry
AuthGate_decodeOnly(v, header, clock) ==
    IF header = Absent \/ header.scheme # "Bearer"
        THEN [ok |-> FALSE,
              res |-> Fail(401, "No token provided. Authorization denied.")]
    ELSE IF header.credentials = <<>>
        THEN [ok |-> FALSE, res |-> Fail(401, "Invalid token format.")]
    ELSE IF "payload" \notin DOMAIN header.credentials[1]
        THEN [ok |-> FALSE, res |-> Fail(401, "Invalid token.")]
    ELSE [ok |-> TRUE, user |-> header.credentials[1].payload]

\* the authentication gate the variant's routes put before every item handler
AuthGate(v, header, clock) ==
    IF v = "prisma" THEN AuthMiddleware_authenticate(header, clock)
    ELSE authMiddleware(header, clock)

----------------------------------------------------------------------------
(* Request validation (Joi schemas behind the validate middleware) *)

ItemFields == {"name", "description", "price", "category"}

\* error.details.map(d => d.message).join(', ')
RECURSIVE Join(_)
Join(messages) ==
    IF messages = <<>> THEN ""
    ELSE IF Len(messages) = 1 THEN messages[1]
    ELSE messages[1] \o ", " \o Join(Tail(messages))

\* the messages of the constraints of `schema` that `body` violates, in schema order
SchemaViolations(schema, body) ==
    LET has(k) == k \in DOMAIN body
        nameV ==
            IF ~has("name")
                THEN IF schema = "createItem" THEN <<"Item name is required">> ELSE <<>>
            ELSE IF Len(body.name) < 3
                THEN <<"Item name must be at least 3 characters long">>
            ELSE IF Len(body.name) > 100
                THEN <<"Item name must not exceed 100 characters">>
            ELSE <<>>
        descV ==
            IF has("description") /\ Len(body.description) > 500
                THEN <<"description length must be less than or equal to 500 characters long">>
            ELSE <<>>
        priceV ==
            IF ~has("price")
                THEN IF schema = "createItem" THEN <<"Price is required">> ELSE <<>>
            ELSE IF body.price <= 0
                THEN <<"Price must be a positive number">>
            ELSE <<>>
        catV ==
            IF has("category") /\ Len(body.category) > 50
                THEN <<"category length must be less than or equal to 50 characters long">>
            ELSE <<>>
        minV ==
            IF schema = "updateItem" /\ DOMAIN body \cap ItemFields = {}
                THEN <<"value must have at least 1 key">>
            ELSE <<>>
    IN  nameV \o descV \o priceV \o catV \o minV

\* fault: validation stops at the first violated constraint (abortEarly)
ValidateMiddleware_validate_abortEarly(schema, body) ==
    LET v == SchemaViolations(schema, body)
    IN  IF v # <<>>
            THEN [ok |-> FALSE, res |-> ErrorHandler_handle(AppError(Head(v), 400))]
        ELSE [ok |-> TRUE,
              value |-> [k \in DOMAIN body \cap ItemFields |-> body[k]]]

\* ValidateMiddleware.validate(schema) of the Prisma variant:
\* abortEarly: false, stripUnknown: true; req.body becomes the validated value
ValidateMiddleware_validate(schema, body) ==
    LET v == SchemaViolations(schema, body)
    IN  IF v # <<>>
            THEN [ok |-> FALSE, res |-> ErrorHandler_handle(AppError(Join(v), 400))]
        ELSE [ok |-> TRUE,
              value |-> [k \in DOMAIN body \cap ItemFields |-> body[k]]]

\* validate(schema) of the SQL variants (middleware/validate.js): a key the
\* schema does not declare is one more violated constraint; the body is kept
validate(v, schema, body) ==
    LET unknown == IF DOMAIN body \subseteq ItemFields THEN <<>>
                   ELSE <<"key is not allowed">>
        viol == SchemaViolations(schema, body) \o unknown
    IN  IF viol # <<>>
            THEN [ok |-> FALSE, res |-> NextError(v, AppError(Join(viol), 400))]
        ELSE [ok |-> TRUE, value |-> body]

ValidateGate(v, schema, body) ==
    IF v = "prisma" THEN ValidateMiddleware_validate(schema, body)
    ELSE validate(v, schema, body)

----------------------------------------------------------------------------
(* Data access: the items table *)

\* findById(id): the row, or null
Items_findById(tbl, id) ==
    IF id \in DOMAIN tbl THEN tbl[id] ELSE Absent

\* fault: the ownership lookup selects by id alone
findByIdAndUserId_anyOwner(tbl, id, userId) ==
    IF id \in DOMAIN tbl THEN tbl[id] ELSE Absent

\* findByIdAndUserId(id, userId): the row with this id AND this owner, or null
findByIdAndUserId(tbl, id, userId) ==
    IF id \in DOMAIN tbl /\ tbl[id].userId = userId THEN tbl[id] ELSE Absent

\* fault: the owner filter is missing
findByUserId_everyone(tbl, userId) ==
    {tbl[i] : i \in DOMAIN tbl}

\* findByUserId(userId): the rows of this owner
findByUserId(tbl, userId) ==
    {tbl[i] : i \in {j \in DOMAIN tbl : tbl[j].userId = userId}}

\* findAll(): every row
findAll(tbl) == {tbl[i] : i \in DOMAIN tbl}

\* text is a sequence of characters here; the letters that have two cases
Lower(ch) ==
    CASE ch = "L" -> "l"
      [] ch = "E" -> "e"
      [] ch = "S" -> "s"
      [] OTHER    -> ch

ToLower(str) == [i \in 1..Len(str) |-> Lower(str[i])]

\* str contains term as a substring
Contains(str, term) ==
    \E i \in 0..(Len(str) - Len(term)) : SubSeq(str, i + 1, i + Len(term)) = term

\* SQL's  str LIKE pat :  % stands for any run of characters, _ for any one
RECURSIVE Like(_, _)
Like(str, pat) ==
    IF pat = <<>> THEN str = <<>>
    ELSE IF Head(pat) = "%"
        THEN Like(str, Tail(pat)) \/ (str # <<>> /\ Like(Tail(str), pat))
    ELSE IF str = <<>> THEN FALSE
    ELSE (Head(pat) = "_" \/ Head(pat) = Head(str)) /\ Like(Tail(str), Tail(pat))

\* PostgreSQL's ILIKE: LIKE without regard to letter case
ILike(str, pat) == Like(ToLower(str), ToLower(pat))

\* SQL Server's LIKE compares as the column's collation says; the migrations
\* name none, so it is the database's default
CollatedLike(str, pat) ==
    IF config.collation = "CI" THEN Like(ToLower(str), ToLower(pat))
    ELSE Like(str, pat)

\* searchByName(searchTerm):
\*   Prisma      name: { contains: searchTerm, mode: 'insensitive' }
\*   PostgreSQL  name ILIKE $1     with $1 = `%${searchTerm}%`
\*   SQL Server  name LIKE @searchTerm  with `%${searchTerm}%`
searchByName(v, tbl, searchTerm) ==
    LET pat == <<"%">> \o searchTerm \o <<"%">>
        hit(row) ==
            CASE v = "prisma" -> Contains(ToLower(row.name), ToLower(searchTerm))
              [] v = "pg"     -> ILike(row.name, pat)
              [] OTHER        -> CollatedLike(row.name, pat)
    IN  {tbl[i] : i \in {j \in DOMAIN tbl : hit(tbl[j])}}

\* a query-string value is text: the decimal digits, and a number as text
Digits == <<"0", "1", "2", "3", "4", "5", "6", "7", "8", "9">>

Str(n) == <<Digits[n + 1]>>

Digit(ch) == (CHOOSE d \in 1..10 : Digits[d] = ch) - 1

IsDigit(ch) == \E d \in 1..10 : Digits[d] = ch

\* the value of the leading decimal digits of a text
RECURSIVE ParseFrom(_, _)
ParseFrom(str, acc) ==
    IF str = <<>> \/ ~IsDigit(Head(str)) THEN acc
    ELSE ParseFrom(Tail(str), 10 * acc + Digit(Head(str)))

\* what is left of a text after its sign
Unsigned(str) == IF str # <<>> /\ Head(str) = "-" THEN Tail(str) ELSE str

\* whether parseInt(text) is a number: the text starts, after an optional
\* minus sign, with a digit
IsNumeric(str) == Unsigned(str) # <<>> /\ IsDigit(Head(Unsigned(str)))

NaN == "NaN"
Infinity == "Infinity"

\* parseInt(text): the integer the text starts with, NaN when there is none
parseInt(str) ==
    IF ~IsNumeric(str) THEN NaN
    ELSE IF Head(str) = "-" THEN 0 - ParseFrom(Unsigned(str), 0)
    ELSE ParseFrom(str, 0)

\* ORDER BY created_at DESC: every order of the rows the clause allows (rows
\* of equal created_at come in whatever order the database produces)
PageOrders(tbl) ==
    LET n == Cardinality(DOMAIN tbl)
    IN  {o \in [1..n -> {tbl[i] : i \in DOMAIN tbl}] :
            /\ \A i, j \in 1..n : i # j => o[i] # o[j]
            /\ \A i, j \in 1..n : i < j => o[i].createdAt >= o[j].createdAt}

Min(a, b) == IF a <= b THEN a ELSE b

\* fault: the offset is page * limit
PageQuery_offByOnePage(order, page, limit) ==
    SubSeq(order, page * limit + 1, Min(page * limit + limit, Len(order)))

\* findWithPagination, the page query: skip (page - 1) * limit rows of the
\* ordered table and take limit
PageQuery(order, page, limit) ==
    LET skip == (page - 1) * limit
    IN  SubSeq(order, skip + 1, Min(skip + limit, Len(order)))

\* Math.ceil(total / limit), for limit >= 0: a division by 0 gives Infinity,
\* and 0 / 0 gives NaN
Ceil(total, limit) ==
    IF limit = 0 THEN IF total = 0 THEN NaN ELSE Infinity
    ELSE (total + limit - 1) \div limit

\* whether the page query is refused with the controller's arguments: NaN
\* is no row count, no database skips a negative number of rows, and SQL
\* Server refuses FETCH NEXT 0 ROWS
PageQueryThrows(v, q) ==
    \/ ~IsNumeric(q.page)
    \/ ~IsNumeric(q.limit)
    \/ (parseInt(q.page) - 1) * parseInt(q.limit) < 0
    \/ v = "mssql" /\ parseInt(q.limit) = 0

\* what the data layer throws then
PageQueryError(v) ==
    CASE v = "prisma" -> LibError("PrismaClientValidationError", NULL,
                                  "Invalid value for skip argument")
      [] v = "pg"     -> LibError("error", "2201X", "OFFSET must not be negative")
      [] OTHER        -> LibError("RequestError", "EREQUEST",
                                  "The offset specified in a OFFSET clause may not be negative.")

\* res.json(result): JSON has no Infinity and no NaN, both are written null
JsonResult(result) ==
    IF result.pagination.limit = 0
        THEN [result EXCEPT !.pagination.totalPages = NULL]
    ELSE result

\* findWithPagination, the count and the value returned
PageResult(rows, page, limit, total) ==
    [items |-> rows,
     pagination |-> [page |-> page, limit |-> limit, total |-> total,
                     totalPages |-> Ceil(total, limit)]]

\* the row create() inserts: description and category default to null,
\* id, createdAt and updatedAt are set by the database
NewItemRow(id, itemData, userId, clock) ==
    [id |-> id,
     name |-> itemData.name,
     description |-> IF "description" \in DOMAIN itemData
                        THEN itemData.description ELSE NULL,
     price |-> itemData.price,
     category |-> IF "category" \in DOMAIN itemData
                     THEN itemData.category ELSE NULL,
     userId |-> userId,
     createdAt |-> clock,
     updatedAt |-> clock]

\* fault: the data object names every text column, null when the body omits it
PrismaUpdateData_allColumns(itemData) ==
    [k \in {"name", "description", "category"} \cup (DOMAIN itemData \cap {"price"}) |->
        IF k \in DOMAIN itemData THEN itemData[k] ELSE NULL]

\* ItemsRepository.update (Prisma): the columns the data object is built from
PrismaUpdateData(itemData) ==
    [k \in {f \in DOMAIN itemData :
                \/ f = "name" /\ itemData[f] # ""
                \/ f = "description"
                \/ f = "price" /\ itemData[f] # 0
                \/ f = "category"} |-> itemData[k]]

\* BaseRepository.update (SQL variants): SET <key> = <value> for every key of data
BaseUpdateData(data) == data

\* the columns an update statement of the variant assigns
UpdateData(v, itemData) ==
    IF v = "prisma" THEN PrismaUpdateData(itemData) ELSE BaseUpdateData(itemData)

\* UPDATE ... SET data, updated_at = now WHERE id = row.id
UpdatedRow(row, data, clock) ==
    [k \in DOMAIN row |->
        IF k \in DOMAIN data THEN data[k]
        ELSE IF k = "updatedAt" THEN clock
        ELSE row[k]]

\* whether an error message contains 'not found' or 'unauthorized'
\* (ItemController's catch blocks of the SQL variants)
IncludesNotFoundOrUnauthorized(message) ==
    message \in {"Item not found", "Item not found or unauthorized",
                 "Record not found."}

\* how a failure thrown by the item service reaches the client:
\* the Prisma controller hands every error to next(); the SQL controllers
\* answer 404 themselves when the message says so
ItemControllerCatch(v, err) ==
  Logged(<<ServiceErrorLog>>,
    IF v # "prisma" /\ IncludesNotFoundOrUnauthorized(err.message)
        THEN Fail(404, err.message)
    ELSE NextError(v, err))

\* fault: the ownership mismatch is reported as a failure of its own
Forbidden(v) ==
    IF v = "prisma" THEN AppError("Forbidden", 403) ELSE Error("Forbidden")

\* throw of the service when the ownership lookup finds nothing
NotFoundOrUnauthorized(v) ==
    IF v = "prisma" THEN AppError("Item not found or unauthorized", 404)
    ELSE Error("Item not found or unauthorized")

\* throw of getItemById when the row is missing
ItemNotFound(v) ==
    IF v = "prisma" THEN AppError("Item not found", 404)
    ELSE Error("Item not found")

\* throw of updateItem in the SQL variants when update() returned null:
\* the log line reads updatedItem.name
NullItemTypeError ==
    LibError("TypeError", NULL, "Cannot read properties of null (reading 'name')")

\* prisma.item.update / delete on a row that does not exist
PrismaRecordNotFound ==
    LibError("PrismaClientKnownRequestError", "P2025", "Record to update not found.")

----------------------------------------------------------------------------
(* Data access: the users table *)

\* bcrypt.hash(password, 10): one-way, never the plaintext
Hash(password) == "bcrypt:" \o password

\* bcrypt.compare(password, hash)
Compare(password, hash) == hash = Hash(password)

\* the row create() inserts into users
NewUserRow(id, userData, clock) ==
    [id |-> id,
     username |-> userData.username,
     email |-> userData.email,
     password |-> Hash(userData.password),
     firstName |-> NULL,
     lastName |-> NULL,
     createdAt |-> clock,
     updatedAt |-> clock,
     lastLogin |-> NoTime]

\* findByUsername(username): the whole row, password hash included
Users_findByUsername(tbl, username) ==
    IF \E i \in DOMAIN tbl : tbl[i].username = username
        THEN tbl[CHOOSE i \in DOMAIN tbl : tbl[i].username = username]
    ELSE Absent

\* fault: the username check looks the value up in the email column
usernameExists_emailColumn(tbl, username) ==
    \E i \in DOMAIN tbl : tbl[i].email = username

\* usernameExists(username) / emailExists(email)
usernameExists(tbl, username) == \E i \in DOMAIN tbl : tbl[i].username = username
emailExists(tbl, email) == \E i \in DOMAIN tbl : tbl[i].email = email

\* fault: the row is returned as stored
WholeRow(row) == row

\* the columns create() and findById() / findByIdSafe() return: the select
\* list without password (Prisma), delete user.password (SQL variants)
SafeUser(row) == [k \in DOMAIN row \ {"password"} |-> row[k]]

\* AuthRepository.findById / UserRepository.findByIdSafe
Users_findById(tbl, id) ==
    IF id \in DOMAIN tbl THEN SafeUser(tbl[id]) ELSE Absent

\* fault: the table is created without its UNIQUE constraints
NoConstraint(tbl, userData) == FALSE

\* whether INSERT INTO users violates UNIQUE(username) or UNIQUE(email)
UniqueViolation(tbl, userData) ==
    \E i \in DOMAIN tbl :
        tbl[i].username = userData.username \/ tbl[i].email = userData.email

\* the failure the driver reports for a violated unique constraint
DuplicateKey(v) ==
    CASE v = "prisma" ->
            LibError("PrismaClientKnownRequestError", "P2002",
                     "Unique constraint failed on the fields")
      [] v = "pg" ->
            LibError("error", "23505",
                     "duplicate key value violates unique constraint")
      [] OTHER ->
            LibError("RequestError", "EREQUEST",
                     "Violation of UNIQUE KEY constraint. Cannot insert duplicate key")

\* fault: the update is lost, the row stays as it was
LastLoginRow_untouched(v, row, clock) == row

\* fault: the timestamp is written into the created_at column
LastLoginRow_wrongColumn(v, row, clock) ==
    [row EXCEPT !.createdAt = clock]

\* UPDATE users SET last_login = now WHERE id; Prisma also stamps updatedAt
LastLoginRow(v, row, clock) ==
    [row EXCEPT !.lastLogin = clock,
                !.updatedAt = IF v = "prisma" THEN clock ELSE @]

\* a failure thrown by a service: AppError in the Prisma variant, a plain
\* Error in the SQL variants
ServiceError(v, message, statusCode) ==
    IF v = "prisma" THEN AppError(message, statusCode) ELSE Error(message)

\* the catch blocks of AuthController: the Prisma controller hands every
\* error to next(); the SQL controllers answer the failures they know
AuthControllerCatch(v, op, err) ==
  Logged(<<ServiceErrorLog>>,
    IF v = "prisma" THEN NextError(v, err)
    ELSE IF op = "register" /\ err.message \in {"Username already exists",
                                                "Email already exists"}
        THEN Fail(400, err.message)
    ELSE IF op = "login" /\ err.message = "Invalid credentials"
        THEN Fail(401, err.message)
    ELSE IF op = "profile" /\ err.message = "User not found"
        THEN Fail(404, err.message)
    ELSE NextError(v, err))

\* fault: an unknown username is reported as such
AuthService_login_userNotFound(v, tbl, username, password) ==
    LET user == Users_findByUsername(tbl, username)
    IN  IF user = Absent
            THEN [ok |-> FALSE, err |-> ServiceError(v, "User not found", 404)]
        ELSE IF ~Compare(password, user.password)
            THEN [ok |-> FALSE, err |-> ServiceError(v, "Invalid credentials", 401)]
        ELSE [ok |-> TRUE, user |-> user]

\* AuthService.login up to the password check: the row, or the failure thrown
AuthService_login(v, tbl, username, password) ==
    LET user == Users_findByUsername(tbl, username)
    IN  IF user = Absent
            THEN [ok |-> FALSE, err |-> ServiceError(v, "Invalid credentials", 401)]
        ELSE IF ~Compare(password, user.password)
            THEN [ok |-> FALSE, err |-> ServiceError(v, "Invalid credentials", 401)]
        ELSE [ok |-> TRUE, user |-> user]

\* AuthService.verifyToken(token): the Prisma service replaces whatever
\* jwt.verify threw by one AppError; the SQL services rethrow it
AuthService_verifyToken(v, token, clock) ==
    LET r == jwt_verify(token, config.JWT_SECRET, clock)
    IN  IF r.ok \/ v # "prisma" THEN r
        ELSE [ok |-> FALSE, err |-> AppError("Invalid or expired token", 401)]

----------------------------------------------------------------------------
(* Requests *)

\* method and path of the route an operation is served by
Route(op) ==
    CASE op = "getAll"   -> [method |-> "GET", path |-> "/api/items"]
      [] op = "getMy"    -> [method |-> "GET", path |-> "/api/items/my"]
      [] op = "getById"  -> [method |-> "GET", path |-> "/api/items/:id"]
      [] op = "create"   -> [method |-> "POST", path |-> "/api/items"]
      [] op = "update"   -> [method |-> "PUT", path |-> "/api/items/:id"]
      [] op = "delete"   -> [method |-> "DELETE", path |-> "/api/items/:id"]
      [] op = "register" -> [method |-> "POST", path |-> "/api/auth/register"]
      [] op = "login"    -> [method |-> "POST", path |-> "/api/auth/login"]
      [] op = "profile"  -> [method |-> "GET", path |-> "/api/auth/me"]
      [] op = "root"     -> [method |-> "GET", path |-> "/"]
      [] op = "health"   -> [method |-> "GET", path |-> "/health"]
      [] OTHER           -> [method |-> "GET", path |-> "/nowhere"]

\* the operations that are requests to the app of server.js; the others are
\* a request to the in-memory server and direct calls of a method
Served == {"getAll", "getMy", "getById", "create", "update", "delete",
           "register", "login", "profile", "root", "health", "unknown"}

\* the request-logging middleware of server.js:
\* logger.info(`${req.method} ${req.path}`)
RequestLogger(op) ==
    IF op \in Served
        THEN <<[level |-> "info", message |-> "request",
                method |-> Route(op).method, path |-> Route(op).path]>>
    ELSE <<>>

\* the entries a request's response was made with, as written to the log:
\* those given req carry the request's method and path
Written(op, res) ==
    [i \in 1..Len(LogOf(res)) |->
        [level |-> LogOf(res)[i].level, message |-> LogOf(res)[i].message,
         method |-> IF LogOf(res)[i].req THEN Route(op).method ELSE NULL,
         path |-> IF LogOf(res)[i].req THEN Route(op).path ELSE NULL]]

\* what res.json sends: status and body
Sent(res) ==
    IF "log" \in DOMAIN res THEN [status |-> res.status, body |-> res.body]
    ELSE res

Idle ==
    [op |-> "none", pc |-> "idle", header |-> Absent, user |-> Absent,
     id |-> 0, body |-> Absent, res |-> Absent, log |-> <<>>]

\* a request the authentication gate turned away (req.user was never set)
Rejected(op, header, res) ==
    [op |-> op, pc |-> "done", header |-> header, user |-> Absent,
     id |-> 0, body |-> Absent, res |-> Sent(res),
     log |-> RequestLogger(op) \o Written(op, res)]

\* a request that was admitted as `user` and has been answered
Answered(op, header, user, id, res) ==
    [op |-> op, pc |-> "done", header |-> header, user |-> user,
     id |-> id, body |-> Absent, res |-> Sent(res),
     log |-> RequestLogger(op) \o Written(op, res)]

\* an answered request of a route without the gate (register, login), or
\* a returned call of verifyToken
Replied(op, body, res) ==
    [op |-> op, pc |-> "done", header |-> Absent, user |-> Absent,
     id |-> 0, body |-> body, res |-> Sent(res),
     log |-> RequestLogger(op) \o Written(op, res)]

\* an answered request that carried a body (POST, a PUT failing validation)
Handled(op, header, user, id, body, res) ==
    [op |-> op, pc |-> "done", header |-> header, user |-> user,
     id |-> id, body |-> body, res |-> Sent(res),
     log |-> RequestLogger(op) \o Written(op, res)]

\* a request waiting for its next database statement `pc`
Waiting(op, pc, header, user, id, body) ==
    [op |-> op, pc |-> pc, header |-> header, user |-> user,
     id |-> id, body |-> body, res |-> Absent, log |-> RequestLogger(op)]

\* the client has no request in flight
Free(c) == reqs[c].pc \in {"idle", "done"}

\* the tokens the server has handed out to user id
TokensOf(id) == {t \in issued : t.payload.id = id}

\* headers that cannot pass the gate: none, another scheme, no credentials,
\* a string that is no token, a token signed with another key
BadHeaders ==
    {NoHeader, Header("Basic", <<Malformed>>), Header("Bearer", <<>>),
     Bearer(Malformed)}
    \cup {Bearer(Forged(t)) : t \in TokensOf(1)}

\* what client c may put in the Authorization header.  The sessions c1 and
\* c2 belong to registered users and send tokens the server handed out; the
\* two sessions and the two users are interchangeable, so c2 is taken to be
\* a session of user 1 and c1 a session of either user.  A visitor sends
\* anything: one of the headers that cannot pass, or a token of user 1,
\* which passes until it expires.  The shopper s1 is a session of user 1.
Headers(c) ==
    IF c \in {"c2"} \cup Shoppers \cup Crawlers \cup Callers
        THEN {Bearer(t) : t \in TokensOf(1)}
    ELSE IF c = "c1" THEN {Bearer(t) : t \in issued}
    ELSE {Bearer(t) : t \in TokensOf(1)} \cup BadHeaders

\* the ids a client may name in the path
ItemIds == 1..MaxItems

\* request bodies of POST /items: a valid one, and one violating two constraints
CreateBodies ==
    {[name |-> "Desk", price |-> 1, category |-> "c1"],
     [name |-> "ab", price |-> 0]}

\* request bodies of PUT /items/:id: one field, two fields, a key the schema
\* does not declare, and no key at all
UpdateBodies ==
    {[price |-> 3],
     [name |-> "Sofa", description |-> "d2"],
     [price |-> 3, userId |-> 1],
     Absent}

\* the search terms: "laptop", "ES", "_" and "x"
Terms ==
    {<<"l", "a", "p", "t", "o", "p">>, <<"E", "S">>, <<"_">>, <<"x">>}

NoQuery == Absent

\* req.query of GET /items: page and limit, either alone, a search term,
\* or nothing
Queries ==
    {[page |-> Str(p), limit |-> Str(l)] : p \in 1..MaxPage, l \in 1..MaxLimit}
        \cup {[page |-> Str(p)] : p \in 1..MaxPage}
        \cup {[limit |-> Str(l)] : l \in 1..MaxLimit}
        \cup {[search |-> t] : t \in Terms}
        \cup {NoQuery}

\* page and limit as a client may write them: "0", "-1", "1", "abc"
RawPages == {<<"0">>, <<"-", "1">>, <<"1">>, <<"a", "b", "c">>}
RawLimits == {<<"0">>, <<"1">>, <<"a", "b", "c">>}

RawQueries == {[page |-> p, limit |-> l] : p \in RawPages, l \in RawLimits}

QueriesOf(c) ==
    IF c \in Shoppers THEN Queries
    ELSE IF c \in Crawlers THEN RawQueries
    ELSE {NoQuery}

\* the arguments of a direct findWithPagination call: each may be left out
PageArgs ==
    {[page |-> p, limit |-> l] : p \in 1..MaxPage, l \in 1..MaxLimit}
        \cup {[page |-> p] : p \in 1..MaxPage}
        \cup {[limit |-> l] : l \in 1..MaxLimit}
        \cup {Absent}

\* JavaScript's truthiness of req.query[k]: set and not the empty text
Truthy(q, k) == k \in DOMAIN q /\ q[k] # <<>>

\* request bodies of POST /items that differ in the price alone, counted in
\* hundredths: -1, 0 and 99.99
PriceBodies ==
    {[name |-> "Desk", price |-> p] : p \in {-100, 0, 9999}}

\* the bodies client c sends: the shopper tries every price and every way
\* of breaking the schemas
CreateBodiesOf(c) ==
    IF c \in Shoppers
        THEN CreateBodies \cup PriceBodies \cup {[price |-> -100], Absent}
    ELSE CreateBodies

UpdateBodiesOf(c) ==
    IF c \in Shoppers
        THEN UpdateBodies \cup {[name |-> "ab", price |-> 0], [price |-> -100]}
    ELSE UpdateBodies

----------------------------------------------------------------------------
(* The item endpoints.  Every route is  authenticate, [validate,] handler. *)

\* GET /items  ->  ItemsController.getAllItems  ->  findAll()
GetAllItems(c) ==
    /\ Free(c)
    /\ \E h \in Headers(c), q \in QueriesOf(c) :
         LET gate == AuthGate(variant, h, now)
         IN  IF ~gate.ok
                 THEN reqs' = [reqs EXCEPT ![c] = Rejected("getAll", h, gate.res)]
             ELSE IF Truthy(q, "page") /\ Truthy(q, "limit")
                          /\ PageQueryThrows(variant, q)
                 THEN reqs' = [reqs EXCEPT ![c] =
                          Handled("getAll", h, gate.user, 0, q,
                              NextError(variant, PageQueryError(variant)))]
             ELSE IF Truthy(q, "page") /\ Truthy(q, "limit")
                 THEN \E order \in PageOrders(items) :
                        reqs' = [reqs EXCEPT ![c] =
                            Waiting("getAll", "count", h, gate.user, 0,
                                [input |-> q,
                                 page  |-> parseInt(q.page),
                                 limit |-> parseInt(q.limit),
                                 rows  |-> PageQuery(order, parseInt(q.page),
                                                     parseInt(q.limit))])]
             ELSE IF Truthy(q, "search")
                 THEN reqs' = [reqs EXCEPT ![c] =
                          Handled("getAll", h, gate.user, 0, q,
                              Ok(200, "Items retrieved successfully",
                                 [items |-> searchByName(variant, items, q.search),
                                  user |-> gate.user]))]
             ELSE reqs' = [reqs EXCEPT ![c] =
                      Handled("getAll", h, gate.user, 0, q,
                          Ok(200, "Items retrieved successfully",
                             [items |-> findAll(items), user |-> gate.user]))]
    /\ UNCHANGED <<variant, config, db, now, users, nextUserId, items, nextItemId, issued>>

\* a direct call findWithPagination(page, limit), up to the page query;
\* an argument left out takes its default
FindWithPagination(c) ==
    /\ Free(c)
    /\ \E args \in PageArgs, order \in PageOrders(items) :
         LET page  == IF "page" \in DOMAIN args THEN args.page ELSE DefaultPage
             limit == IF "limit" \in DOMAIN args THEN args.limit ELSE DefaultLimit
         IN  reqs' = [reqs EXCEPT ![c] =
                 Waiting("listPage", "count", Absent, Absent, 0,
                     [input |-> args, page |-> page, limit |-> limit,
                      rows |-> PageQuery(order, page, limit)])]
    /\ UNCHANGED <<variant, config, db, now, users, nextUserId, items, nextItemId, issued>>

\* findWithPagination, the count statement and the return; the controller
\* answers with the result as data
FindWithPaginationCount(c) ==
    /\ reqs[c].pc = "count"
    /\ LET r      == reqs[c]
           result == PageResult(r.body.rows, r.body.page, r.body.limit,
                                Cardinality(DOMAIN items))
       IN  reqs' = [reqs EXCEPT ![c] =
               IF r.op = "getAll"
                   THEN Handled("getAll", r.header, r.user, 0, r.body.input,
                            Ok(200, "Items retrieved successfully",
                               JsonResult(result)))
               ELSE Replied("listPage", r.body.input, result)]
    /\ UNCHANGED <<variant, config, db, now, users, nextUserId, items, nextItemId, issued>>

\* GET /items/my  ->  getMyItems  ->  findByUserId(req.user.id)
GetMyItems(c) ==
    /\ Free(c)
    /\ \E h \in Headers(c) :
         LET gate == AuthGate(variant, h, now)
         IN  reqs' = [reqs EXCEPT ![c] =
                 IF ~gate.ok
                     THEN Rejected("getMy", h, gate.res)
                 ELSE Answered("getMy", h, gate.user, 0,
                          Ok(200, "Your items retrieved successfully",
                             [items |-> findByUserId(items, gate.user.id)]))]
    /\ UNCHANGED <<variant, config, db, now, users, nextUserId, items, nextItemId, issued>>

\* catch block of getItemById: the SQL controllers answer 404 themselves
GetItemByIdCatch(v, err) ==
  Logged(<<ServiceErrorLog>>,
    IF v # "prisma" /\ err.message = "Item not found"
        THEN Fail(404, err.message)
    ELSE NextError(v, err))

\* GET /items/:id  ->  getItemById  ->  findById(id)
GetItemById(c) ==
    /\ Free(c)
    /\ \E h \in Headers(c), id \in ItemIds :
         LET gate == AuthGate(variant, h, now)
             item == Items_findById(items, id)
         IN  reqs' = [reqs EXCEPT ![c] =
                 IF ~gate.ok
                     THEN Rejected("getById", h, gate.res)
                 ELSE IF item = Absent
                     THEN Answered("getById", h, gate.user, id,
                              GetItemByIdCatch(variant, ItemNotFound(variant)))
                 ELSE Answered("getById", h, gate.user, id,
                          Ok(200, "Item retrieved successfully", [item |-> item]))]
    /\ UNCHANGED <<variant, config, db, now, users, nextUserId, items, nextItemId, issued>>

\* POST /items  ->  createItem  ->  create({..., userId: req.user.id})
CreateItem(c) ==
    /\ Free(c)
    /\ \E h \in Headers(c), b \in CreateBodiesOf(c) :
         LET gate  == AuthGate(variant, h, now)
             valid == ValidateGate(variant, "createItem", b)
             row   == NewItemRow(nextItemId, valid.value, gate.user.id, now)
         IN  IF ~gate.ok
                 THEN /\ reqs' = [reqs EXCEPT ![c] =
                              Rejected("create", h, gate.res)]
                      /\ UNCHANGED <<items, nextItemId>>
             ELSE IF ~valid.ok
                 THEN /\ reqs' = [reqs EXCEPT ![c] =
                              Handled("create", h, gate.user, 0, b, valid.res)]
                      /\ UNCHANGED <<items, nextItemId>>
             ELSE /\ nextItemId <= MaxItems
                  /\ items' = (nextItemId :> row) @@ items
                  /\ nextItemId' = nextItemId + 1
                  /\ reqs' = [reqs EXCEPT ![c] =
                          Handled("create", h, gate.user, 0, b,
                              Ok(201, "Item created successfully", [item |-> row]))]
    /\ UNCHANGED <<variant, config, db, now, users, nextUserId, issued>>

\* PUT /items/:id  ->  updateItem, up to the ownership lookup
\* findByIdAndUserId(id, req.user.id); the write is a later statement
UpdateItem(c) ==
    /\ Free(c)
    /\ \E h \in Headers(c), id \in ItemIds, b \in UpdateBodiesOf(c) :
         LET gate  == AuthGate(variant, h, now)
             valid == ValidateGate(variant, "updateItem", b)
         IN  reqs' = [reqs EXCEPT ![c] =
                 IF ~gate.ok
                     THEN Rejected("update", h, gate.res)
                 ELSE IF ~valid.ok
                     THEN Handled("update", h, gate.user, 0, b, valid.res)
                 ELSE IF findByIdAndUserId(items, id, gate.user.id) = Absent
                     THEN Answered("update", h, gate.user, id,
                              ItemControllerCatch(variant,
                                  NotFoundOrUnauthorized(variant)))
                 ELSE Waiting("update", "update", h, gate.user, id, valid.value)]
    /\ UNCHANGED <<variant, config, db, now, users, nextUserId, items, nextItemId, issued>>

\* updateItem, the write:  repository.update(id, itemData)  (by id alone)
UpdateItemWrite(c) ==
    /\ reqs[c].pc = "update"
    /\ LET r  == reqs[c]
           id == r.id
       IN  IF id \in DOMAIN items
               THEN LET row == UpdatedRow(items[id], UpdateData(variant, r.body), now)
                    IN  /\ items' = [items EXCEPT ![id] = row]
                        /\ reqs' = [reqs EXCEPT ![c] =
                               Answered(r.op, r.header, r.user, id,
                                   Ok(200, "Item updated successfully",
                                      [item |-> row]))]
           ELSE /\ items' = items
                /\ reqs' = [reqs EXCEPT ![c] =
                       Answered(r.op, r.header, r.user, id,
                           ItemControllerCatch(variant,
                               IF variant = "prisma" THEN PrismaRecordNotFound
                               ELSE NullItemTypeError))]
    /\ UNCHANGED <<variant, config, db, now, users, nextUserId, nextItemId, issued>>

\* DELETE /items/:id  ->  deleteItem, up to the ownership lookup
DeleteItem(c) ==
    /\ Free(c)
    /\ \E h \in Headers(c), id \in ItemIds :
         LET gate == AuthGate(variant, h, now)
         IN  reqs' = [reqs EXCEPT ![c] =
                 IF ~gate.ok
                     THEN Rejected("delete", h, gate.res)
                 ELSE IF findByIdAndUserId(items, id, gate.user.id) = Absent
                     THEN Answered("delete", h, gate.user, id,
                              ItemControllerCatch(variant,
                                  NotFoundOrUnauthorized(variant)))
                 ELSE Waiting("delete", "delete", h, gate.user, id, Absent)]
    /\ UNCHANGED <<variant, config, db, now, users, nextUserId, items, nextItemId, issued>>

\* deleteItem, the write:  repository.delete(id)  (by id alone)
DeleteItemWrite(c) ==
    /\ reqs[c].pc = "delete"
    /\ LET r  == reqs[c]
           id == r.id
       IN  IF id \notin DOMAIN items /\ variant = "prisma"
               THEN /\ items' = items
                    /\ reqs' = [reqs EXCEPT ![c] =
                           Answered(r.op, r.header, r.user, id,
                               ItemControllerCatch(variant, PrismaRecordNotFound))]
           ELSE /\ items' = [i \in DOMAIN items \ {id} |-> items[i]]
                /\ reqs' = [reqs EXCEPT ![c] =
                       Answered(r.op, r.header, r.user, id,
                           Ok(200, "Item deleted successfully", Absent))]
    /\ UNCHANGED <<variant, config, db, now, users, nextUserId, nextItemId, issued>>

\* the clock advances
Tick ==
    /\ now < MaxTime
    /\ now' = now + 1
    /\ UNCHANGED <<variant, config, db, users, nextUserId, items, nextItemId, issued, reqs>>

----------------------------------------------------------------------------
(* The server: root, health, unknown routes, failing statements *)

\* what a driver throws when a statement cannot be run: no connection, a
\* timeout, a failure without a message
DriverErrors ==
    {LibError("Error", "ECONNREFUSED", "connect ECONNREFUSED"),
     LibError("RequestError", "ETIMEOUT", "operation timed out"),
     LibError("Error", NULL, "")}

\* GET /
GetRoot(c) ==
    /\ Free(c)
    /\ reqs' = [reqs EXCEPT ![c] =
           Replied("root", Absent,
               Ok(200, "Welcome", [documentation |-> "/api-docs"]))]
    /\ UNCHANGED <<variant, config, db, now, users, nextUserId, items, nextItemId, issued>>

\* GET /health: the database answers the probe, or does not
GetHealth(c) ==
    /\ Free(c)
    /\ \E isHealthy \in BOOLEAN :
         reqs' = [reqs EXCEPT ![c] =
             Replied("health", Absent,
                 IF isHealthy
                     THEN Ok(200, "Server is running",
                             [timestamp |-> now, database |-> "connected"])
                 ELSE [status |-> 503,
                       body |-> [success |-> FALSE,
                                 message |-> "Service unavailable",
                                 data |-> [timestamp |-> now,
                                           database |-> "disconnected"]]])]
    /\ UNCHANGED <<variant, config, db, now, users, nextUserId, items, nextItemId, issued>>

\* a request no route matches: the 404 handler
RouteNotFound(c) ==
    /\ Free(c)
    /\ reqs' = [reqs EXCEPT ![c] =
           Replied("unknown", Absent, Fail(404, "Route not found"))]
    /\ UNCHANGED <<variant, config, db, now, users, nextUserId, items, nextItemId, issued>>

\* GET /items whose findAll statement the driver fails: the controller's
\* catch hands the error to next()
GetAllItemsThrows(c) ==
    /\ Free(c)
    /\ \E h \in Headers(c), err \in DriverErrors :
         LET gate == AuthGate(variant, h, now)
         IN  reqs' = [reqs EXCEPT ![c] =
                 IF ~gate.ok
                     THEN Rejected("getAll", h, gate.res)
                 ELSE Answered("getAll", h, gate.user, 0,
                          Logged(<<ServiceErrorLog>>, NextError(variant, err)))]
    /\ UNCHANGED <<variant, config, db, now, users, nextUserId, items, nextItemId, issued>>

\* a request to the in-memory server whose handler throws
InMemoryThrows(c) ==
    /\ Free(c)
    /\ \E err \in DriverErrors :
         reqs' = [reqs EXCEPT ![c] =
             Replied("memory", Absent, errorHandler_memory(err))]
    /\ UNCHANGED <<variant, config, db, now, users, nextUserId, items, nextItemId, issued>>

----------------------------------------------------------------------------
(* The auth endpoints *)

\* two registered users
Alice == [username |-> "alice", email |-> "alice@x.com", password |-> "secret1"]
Bob   == [username |-> "bob", email |-> "bob@x.com", password |-> "secret2"]

\* request bodies of POST /auth/register: two usernames, two emails
RegInputs ==
    {[username |-> u, email |-> e, password |-> "pw1"] :
        u \in {"alice", "bob"}, e \in {"a@x.com", "b@x.com"}}

\* request bodies of POST /auth/login: the right password, a wrong one, and
\* a username nobody registers
LoginInputs ==
    {[username |-> u, password |-> p] :
        u \in {"alice", "carol"}, p \in {"pw1", "wrong"}}

\* what a client may put in the Authorization header of GET /auth/me, or
\* hand to verifyToken: a token the server issued, a forgery of one, garbage
Tokens == issued \cup {Forged(t) : t \in issued} \cup {Malformed}
AuthHeaders == {NoHeader} \cup {Bearer(t) : t \in Tokens}

\* POST /auth/register  ->  register, up to usernameExists(username)
Register(c) ==
    /\ Free(c)
    /\ \E b \in RegInputs :
         reqs' = [reqs EXCEPT ![c] =
             IF usernameExists(users, b.username)
                 THEN Replied("register", b,
                          AuthControllerCatch(variant, "register",
                              ServiceError(variant, "Username already exists", 400)))
             ELSE Waiting("register", "emailExists", Absent, Absent, 0, b)]
    /\ UNCHANGED <<variant, config, db, now, users, nextUserId, items, nextItemId, issued>>

\* register, the second statement: emailExists(email)
RegisterEmailExists(c) ==
    /\ reqs[c].pc = "emailExists"
    /\ LET b == reqs[c].body
       IN  reqs' = [reqs EXCEPT ![c] =
               IF emailExists(users, b.email)
                   THEN Replied("register", b,
                            AuthControllerCatch(variant, "register",
                                ServiceError(variant, "Email already exists", 400)))
               ELSE Waiting("register", "create", Absent, Absent, 0, b)]
    /\ UNCHANGED <<variant, config, db, now, users, nextUserId, items, nextItemId, issued>>

\* register, the insert: bcrypt.hash, create(), generateToken, 201.
\* The insert takes the next id of the sequence whether or not it succeeds,
\* and fails when the table's UNIQUE constraints reject the row.  The row is
\* committed by create(); generateToken runs after it, and what it throws
\* goes to the catch with the row in place.
RegisterCreate(c) ==
    /\ reqs[c].pc = "create"
    /\ nextUserId <= MaxUsers
    /\ nextUserId' = nextUserId + 1
    /\ LET b     == reqs[c].body
           row   == NewUserRow(nextUserId, b, now)
           user  == SafeUser(row)
           token == generateToken(user, now)
       IN  IF UniqueViolation(users, b)
               THEN /\ reqs' = [reqs EXCEPT ![c] =
                            Replied("register", b,
                                AuthControllerCatch(variant, "register",
                                    DuplicateKey(variant)))]
                    /\ UNCHANGED <<users, issued>>
           ELSE IF ~CanSign
               THEN /\ users' = (nextUserId :> row) @@ users
                    /\ reqs' = [reqs EXCEPT ![c] =
                            Replied("register", b,
                                AuthControllerCatch(variant, "register",
                                    SigningError))]
                    /\ UNCHANGED issued
           ELSE /\ users' = (nextUserId :> row) @@ users
                /\ issued' = issued \cup {token}
                /\ reqs' = [reqs EXCEPT ![c] =
                        Replied("register", b,
                            Ok(201, "User registered successfully",
                               [user |-> user, token |-> token]))]
    /\ UNCHANGED <<variant, config, db, now, items, nextItemId>>

\* POST /auth/login  ->  login, up to findByUsername and bcrypt.compare
Login(c) ==
    /\ Free(c)
    /\ \E b \in LoginInputs :
         LET found == AuthService_login(variant, users, b.username, b.password)
         IN  reqs' = [reqs EXCEPT ![c] =
                 IF ~found.ok
                     THEN Replied("login", b,
                              AuthControllerCatch(variant, "login", found.err))
                 ELSE Waiting("login", "updateLastLogin", Absent, found.user, 0, b)]
    /\ UNCHANGED <<variant, config, db, now, users, nextUserId, items, nextItemId, issued>>

\* login, the write: updateLastLogin(user.id), generateToken, 200.
\* The user returned is the row read before the update, without password.
LoginUpdateLastLogin(c) ==
    /\ reqs[c].pc = "updateLastLogin"
    /\ LET r     == reqs[c]
           user  == SafeUser(r.user)
           token == generateToken(user, now)
       IN  /\ users' = [users EXCEPT ![user.id] = LastLoginRow(variant, @, now)]
           /\ IF ~CanSign
                  THEN /\ reqs' = [reqs EXCEPT ![c] =
                               Replied("login", r.body,
                                   AuthControllerCatch(variant, "login",
                                       SigningError))]
                       /\ UNCHANGED issued
              ELSE /\ issued' = issued \cup {token}
                   /\ reqs' = [reqs EXCEPT ![c] =
                           Replied("login", r.body,
                               Ok(200, "Login successful",
                                  [user |-> user, token |-> token]))]
    /\ UNCHANGED <<variant, config, db, now, nextUserId, items, nextItemId>>

\* GET /auth/me  ->  authenticate, getProfile  ->  findById(req.user.id)
GetProfile(c) ==
    /\ Free(c)
    /\ \E h \in AuthHeaders :
         LET gate == AuthGate(variant, h, now)
             user == Users_findById(users, gate.user.id)
         IN  reqs' = [reqs EXCEPT ![c] =
                 IF ~gate.ok
                     THEN Rejected("profile", h, gate.res)
                 ELSE IF user = Absent
                     THEN Answered("profile", h, gate.user, 0,
                              AuthControllerCatch(variant, "profile",
                                  ServiceError(variant, "User not found", 404)))
                 ELSE Answered("profile", h, gate.user, 0,
                          Ok(200, "User profile retrieved successfully",
                             [user |-> user]))]
    /\ UNCHANGED <<variant, config, db, now, users, nextUserId, items, nextItemId, issued>>

\* a call of AuthService.verifyToken(token); res holds what it returned or threw
VerifyToken(c) ==
    /\ Free(c)
    /\ \E t \in Tokens :
         reqs' = [reqs EXCEPT ![c] =
             Replied("verify", [token |-> t],
                 AuthService_verifyToken(variant, t, now))]
    /\ UNCHANGED <<variant, config, db, now, users, nextUserId, items, nextItemId, issued>>

----------------------------------------------------------------------------
(* The auth service, starting from an empty users table *)

InitAuth ==
    /\ variant \in Variants
    /\ config = Production
    /\ db = NewDatabase(variant)
    /\ now = 0
    /\ users = <<>>
    /\ nextUserId = 1
    /\ items = <<>>
    /\ nextItemId = 1
    /\ issued = {}
    /\ reqs = [c \in Clients |-> Idle]

NextAuth ==
    \/ \E c \in Clients : Register(c)
    \/ \E c \in Clients : RegisterEmailExists(c)
    \/ \E c \in Clients : RegisterCreate(c)
    \/ \E c \in Clients : Login(c)
    \/ \E c \in Clients : LoginUpdateLastLogin(c)
    \/ \E c \in Clients : GetProfile(c)

SpecAuth == InitAuth /\ [][NextAuth]_vars

----------------------------------------------------------------------------
(* A user's life: one visitor registers, logs in and reads the profile while
   the clock runs *)

InitLogin ==
    /\ variant \in Variants
    /\ config = Production
    /\ db = NewDatabase(variant)
    /\ now = 0
    /\ users = <<>>
    /\ nextUserId = 1
    /\ items = <<>>
    /\ nextItemId = 1
    /\ issued = {}
    /\ reqs = [c \in Visitors |-> Idle]

NextLogin ==
    \/ \E c \in Visitors : Register(c)
    \/ \E c \in Visitors : RegisterEmailExists(c)
    \/ \E c \in Visitors : RegisterCreate(c)
    \/ \E c \in Visitors : Login(c)
    \/ \E c \in Visitors : LoginUpdateLastLogin(c)
    \/ \E c \in Visitors : GetProfile(c)
    \/ Tick

SpecLogin == InitLogin /\ [][NextLogin]_vars

----------------------------------------------------------------------------
(* Registration under any deployment: JWT_SECRET may be missing from the
   process environment, and then jwt.sign throws *)

InitRegister ==
    /\ variant \in Variants
    /\ config \in {[NODE_ENV |-> "production", JWT_SECRET |-> k, collation |-> "CI"] :
                      k \in {JWT_SECRET, NULL}}
    /\ db = NewDatabase(variant)
    /\ now = 0
    /\ users = <<>>
    /\ nextUserId = 1
    /\ items = <<>>
    /\ nextItemId = 1
    /\ issued = {}
    /\ reqs = [c \in Visitors |-> Idle]

NextRegister ==
    \/ \E c \in Visitors : Register(c)
    \/ \E c \in Visitors : RegisterEmailExists(c)
    \/ \E c \in Visitors : RegisterCreate(c)
    \/ \E c \in Visitors : Login(c)
    \/ \E c \in Visitors : LoginUpdateLastLogin(c)

SpecRegister == InitRegister /\ [][NextRegister]_vars

----------------------------------------------------------------------------
(* Every kind of response: one visitor with any header calls the server's
   own routes and the item endpoints, statements may fail, and the process
   runs under any NODE_ENV.  Of user 1's two tokens one has expired. *)

InitServer ==
    /\ variant \in Variants
    /\ config \in {[NODE_ENV |-> e, JWT_SECRET |-> JWT_SECRET, collation |-> "CI"] :
                      e \in {"production", "development", "test"}}
    /\ db = NewDatabase(variant)
    /\ now = TTL
    /\ users = (1 :> NewUserRow(1, Alice, 0)) @@ (2 :> NewUserRow(2, Bob, 0))
    /\ nextUserId = 3
    /\ items = <<>>
    /\ nextItemId = 1
    /\ issued = {generateToken(users[1], 0), generateToken(users[1], TTL)}
    /\ reqs = [c \in Visitors |-> Idle]

NextServer ==
    \/ \E c \in Visitors : GetRoot(c)
    \/ \E c \in Visitors : GetHealth(c)
    \/ \E c \in Visitors : RouteNotFound(c)
    \/ \E c \in Visitors : GetAllItemsThrows(c)
    \/ \E c \in Visitors : InMemoryThrows(c)
    \/ \E c \in Visitors : GetAllItems(c)
    \/ \E c \in Visitors : GetMyItems(c)
    \/ \E c \in Visitors : GetItemById(c)
    \/ \E c \in Visitors : CreateItem(c)
    \/ \E c \in Visitors : UpdateItem(c)
    \/ \E c \in Visitors : UpdateItemWrite(c)
    \/ \E c \in Visitors : DeleteItem(c)
    \/ \E c \in Visitors : DeleteItemWrite(c)

SpecServer == InitServer /\ [][NextServer]_vars

----------------------------------------------------------------------------
(* Token verification: one visitor presenting any token to GET /auth/me and
   to verifyToken, while the clock runs and the issued tokens expire *)

InitToken ==
    /\ variant \in Variants
    /\ config = Production
    /\ db = NewDatabase(variant)
    /\ now = 0
    /\ users = (1 :> NewUserRow(1, Alice, 0)) @@ (2 :> NewUserRow(2, Bob, 0))
    /\ nextUserId = 3
    /\ items = <<>>
    /\ nextItemId = 1
    /\ issued = {generateToken(users[1], 0), generateToken(users[2], 0)}
    /\ reqs = [c \in Visitors |-> Idle]

NextToken ==
    \/ \E c \in Visitors : GetProfile(c)
    \/ \E c \in Visitors : VerifyToken(c)
    \/ Tick

SpecToken == InitToken /\ [][NextToken]_vars

----------------------------------------------------------------------------
(* The item service, serving two registered users *)

InitItems ==
    /\ variant \in Variants
    /\ config = Production
    /\ db = NewDatabase(variant)
    /\ now = 0
    /\ users = (1 :> NewUserRow(1, Alice, 0)) @@ (2 :> NewUserRow(2, Bob, 0))
    /\ nextUserId = 3
    /\ items = <<>>
    /\ nextItemId = 1
    /\ issued = {generateToken(users[1], 0), generateToken(users[2], 0)}
    /\ reqs = [c \in Clients |-> Idle]

NextItems ==
    \/ \E c \in Clients : CreateItem(c)
    \/ \E c \in Clients : UpdateItem(c)
    \/ \E c \in Clients : UpdateItemWrite(c)
    \/ \E c \in Clients : DeleteItem(c)
    \/ \E c \in Clients : DeleteItemWrite(c)

SpecItems == InitItems /\ [][NextItems]_vars

----------------------------------------------------------------------------
(* Each user's own items: two sessions create, list their own and delete *)

InitMy ==
    /\ variant \in Variants
    /\ config = Production
    /\ db = NewDatabase(variant)
    /\ now = 0
    /\ users = (1 :> NewUserRow(1, Alice, 0)) @@ (2 :> NewUserRow(2, Bob, 0))
    /\ nextUserId = 3
    /\ items = <<>>
    /\ nextItemId = 1
    /\ issued = {generateToken(users[1], 0), generateToken(users[2], 0)}
    /\ reqs = [c \in Clients |-> Idle]

NextMy ==
    \/ \E c \in Clients : CreateItem(c)
    \/ \E c \in Clients : GetMyItems(c)
    \/ \E c \in Clients : DeleteItem(c)
    \/ \E c \in Clients : DeleteItemWrite(c)

SpecMy == InitMy /\ [][NextMy]_vars

----------------------------------------------------------------------------
(* Request validation: a signed-in shopper posting and putting every body *)

InitValidate ==
    /\ variant \in Variants
    /\ config = Production
    /\ db = NewDatabase(variant)
    /\ now = 0
    /\ users = (1 :> NewUserRow(1, Alice, 0)) @@ (2 :> NewUserRow(2, Bob, 0))
    /\ nextUserId = 3
    /\ items = <<>>
    /\ nextItemId = 1
    /\ issued = {generateToken(users[1], 0), generateToken(users[2], 0)}
    /\ reqs = [c \in Shoppers |-> Idle]

NextValidate ==
    \/ \E c \in Shoppers : CreateItem(c)
    \/ \E c \in Shoppers : UpdateItem(c)
    \/ \E c \in Shoppers : UpdateItemWrite(c)

SpecValidate == InitValidate /\ [][NextValidate]_vars

----------------------------------------------------------------------------
(* Listing: a signed-in shopper reads a table that holds 0..MaxRows rows *)

\* the names "Laptop", "desk", "a_b", "Lamp"
NameOf(i) ==
    CASE i = 1 -> <<"L", "a", "p", "t", "o", "p">>
      [] i = 2 -> <<"d", "e", "s", "k">>
      [] i = 3 -> <<"a", "_", "b">>
      [] OTHER -> <<"L", "a", "m", "p">>

\* row i of the preloaded table: user 1 created row 1 at time 0 and the
\* others together at time 1
ListRow(i) ==
    [id |-> i, name |-> NameOf(i), description |-> NULL, price |-> 100 * i,
     category |-> NULL, userId |-> 1,
     createdAt |-> IF i = 1 THEN 0 ELSE 1,
     updatedAt |-> IF i = 1 THEN 0 ELSE 1]

Stores == {[i \in 1..n |-> ListRow(i)] : n \in 0..MaxRows}

InitList ==
    /\ variant \in Variants
    /\ config \in {[NODE_ENV |-> "production", JWT_SECRET |-> JWT_SECRET,
                      collation |-> k] : k \in {"CI", "CS"}}
    /\ db = NewDatabase(variant)
    /\ now = 1
    /\ users = (1 :> NewUserRow(1, Alice, 0)) @@ (2 :> NewUserRow(2, Bob, 0))
    /\ nextUserId = 3
    /\ items \in Stores
    /\ nextItemId = Cardinality(DOMAIN items) + 1
    /\ issued = {generateToken(users[1], 0), generateToken(users[2], 0)}
    /\ reqs = [c \in Shoppers |-> Idle]

NextList ==
    \/ \E c \in Shoppers : GetAllItems(c)
    \/ \E c \in Shoppers : FindWithPagination(c)
    \/ \E c \in Shoppers : FindWithPaginationCount(c)

SpecList == InitList /\ [][NextList]_vars

----------------------------------------------------------------------------
(* Paging through the table: the callers read one page each, by separate
   queries, of a table nobody writes to *)

InitPages ==
    /\ variant \in Variants
    /\ config = Production
    /\ db = NewDatabase(variant)
    /\ now = 1
    /\ users = (1 :> NewUserRow(1, Alice, 0)) @@ (2 :> NewUserRow(2, Bob, 0))
    /\ nextUserId = 3
    /\ items \in Stores
    /\ nextItemId = Cardinality(DOMAIN items) + 1
    /\ issued = {}
    /\ reqs = [c \in Browsers |-> Idle]

NextPages ==
    \/ \E c \in Browsers : FindWithPagination(c)
    \/ \E c \in Browsers : FindWithPaginationCount(c)

SpecPages == InitPages /\ [][NextPages]_vars

----------------------------------------------------------------------------
(* GET /items with a query string written by hand *)

InitCrawl ==
    /\ variant \in Variants
    /\ config = Production
    /\ db = NewDatabase(variant)
    /\ now = 1
    /\ users = (1 :> NewUserRow(1, Alice, 0)) @@ (2 :> NewUserRow(2, Bob, 0))
    /\ nextUserId = 3
    /\ items \in Stores
    /\ nextItemId = Cardinality(DOMAIN items) + 1
    /\ issued = {generateToken(users[1], 0), generateToken(users[2], 0)}
    /\ reqs = [c \in Crawlers |-> Idle]

NextCrawl ==
    \/ \E c \in Crawlers : GetAllItems(c)
    \/ \E c \in Crawlers : FindWithPaginationCount(c)

SpecCrawl == InitCrawl /\ [][NextCrawl]_vars

----------------------------------------------------------------------------
(* The database module: getPool and the pool's connections.  The callers
   send GET /items and POST /items; the statement of each needs the pool and
   one of its connections, which other requests of the process take and give
   back. *)

\* whether the pool gives up on a caller waiting for a connection: the
\* Prisma variant's pool has connectionTimeoutMillis: 2000 and the mssql pool
\* its acquire timeout; the PostgreSQL variant's pool is given none, and
\* waits
HasAcquireTimeout(v) == v # "pg"

\* what the pool throws at a caller it gave up on
AcquireTimeout(v) ==
    IF v = "prisma"
        THEN LibError("Error", NULL, "timeout exceeded when trying to connect")
    ELSE LibError("TimeoutError", NULL, "operation timed out for an unknown reason")

\* the statement of the request, run on a connection of the pool, and the
\* answer: the INSERT of create() and 201, the SELECT of findAll() and 200
RunStatement(c, r) ==
    LET row == NewItemRow(nextItemId, r.body, r.user.id, now)
    IN  IF r.op = "create"
            THEN /\ items' = (nextItemId :> row) @@ items
                 /\ nextItemId' = nextItemId + 1
                 /\ reqs' = [reqs EXCEPT ![c] =
                         Handled("create", r.header, r.user, 0, r.body,
                             Ok(201, "Item created successfully", [item |-> row]))]
        ELSE /\ reqs' = [reqs EXCEPT ![c] =
                     Answered("getAll", r.header, r.user, 0,
                         Ok(200, "Items retrieved successfully",
                            [items |-> findAll(items), user |-> r.user]))]
             /\ UNCHANGED <<items, nextItemId>>

\* the creates that have started and not finished
InFlight ==
    {c \in DOMAIN reqs : reqs[c].op = "create" /\ reqs[c].pc \in {"connect", "acquire"}}

\* POST /items  ->  create  ->  database.query: getPool(), then a connection
\* of the pool.  getPool creates the pool when this.pool is not set: the
\* mssql module awaits sql.connect and sets this.pool afterwards, the pg
\* module sets it at once.
DatabaseQuery(c) ==
    /\ Free(c)
    /\ \E h \in Headers(c), op \in {"getAll", "create"} :
         LET gate == AuthGate(variant, h, now)
             b    == IF op = "create" THEN [name |-> "Desk", price |-> 1] ELSE Absent
             r    == Waiting(op, "acquire", h, gate.user, 0, b)
         IN  /\ gate.ok
             /\ op = "create" => nextItemId + Cardinality(InFlight) <= MaxItems
             /\ IF db.pool = "none" /\ variant = "mssql"
                    THEN /\ db' = [db EXCEPT !.created = @ + 1]
                         /\ reqs' = [reqs EXCEPT ![c] =
                                 Waiting(op, "connect", h, gate.user, 0, b)]
                         /\ UNCHANGED <<items, nextItemId>>
                ELSE /\ db' = IF db.pool = "none"
                                  THEN [db EXCEPT !.pool = "open", !.created = @ + 1]
                              ELSE db
                     /\ IF db.inUse < PoolMax
                            THEN RunStatement(c, r)
                        ELSE /\ reqs' = [reqs EXCEPT ![c] = r]
                             /\ UNCHANGED <<items, nextItemId>>
    /\ UNCHANGED <<variant, config, now, users, nextUserId, issued>>

\* getPool of the mssql module, after the await: this.pool is set, and the
\* caller asks the pool for a connection
GetPoolConnected(c) ==
    /\ reqs[c].pc = "connect"
    /\ db' = [db EXCEPT !.pool = "open"]
    /\ IF db.inUse < PoolMax
           THEN RunStatement(c, [reqs[c] EXCEPT !.pc = "acquire"])
       ELSE /\ reqs' = [reqs EXCEPT ![c].pc = "acquire"]
            /\ UNCHANGED <<items, nextItemId>>
    /\ UNCHANGED <<variant, config, now, users, nextUserId, issued>>

\* a connection has become free for a waiting caller
PoolAcquire(c) ==
    /\ reqs[c].pc = "acquire"
    /\ db.inUse < PoolMax
    /\ RunStatement(c, reqs[c])
    /\ UNCHANGED <<variant, config, db, now, users, nextUserId, issued>>

\* the pool gives up on a waiting caller: the statement is never run, the
\* error goes through the service and the controller to next()
PoolTimeout(c) ==
    /\ reqs[c].pc = "acquire"
    /\ db.inUse = PoolMax
    /\ HasAcquireTimeout(variant)
    /\ reqs' = [reqs EXCEPT ![c] =
           Handled(reqs[c].op, reqs[c].header, reqs[c].user, 0, reqs[c].body,
               ItemControllerCatch(variant, AcquireTimeout(variant)))]
    /\ UNCHANGED <<variant, config, db, now, users, nextUserId, items, nextItemId, issued>>

\* another request of the process takes a connection of the pool
PoolCheckout ==
    /\ db.pool = "open"
    /\ db.inUse < PoolMax
    /\ db' = [db EXCEPT !.inUse = @ + 1]
    /\ UNCHANGED <<variant, config, now, users, nextUserId, items, nextItemId, issued, reqs>>

\* and gives it back
PoolRelease ==
    /\ db.inUse > 0
    /\ db' = [db EXCEPT !.inUse = @ - 1]
    /\ UNCHANGED <<variant, config, now, users, nextUserId, items, nextItemId, issued, reqs>>

InitPool ==
    /\ variant \in Variants
    /\ config = Production
    /\ db = NewDatabase(variant)
    /\ now = 0
    /\ users = (1 :> NewUserRow(1, Alice, 0)) @@ (2 :> NewUserRow(2, Bob, 0))
    /\ nextUserId = 3
    /\ items = <<>>
    /\ nextItemId = 1
    /\ issued = {generateToken(users[1], 0)}
    /\ reqs = [c \in Callers |-> Idle]

NextPool ==
    \/ \E c \in Callers : DatabaseQuery(c)
    \/ \E c \in Callers : GetPoolConnected(c)
    \/ \E c \in Callers : PoolAcquire(c)
    \/ \E c \in Callers : PoolTimeout(c)
    \/ PoolCheckout
    \/ PoolRelease

SpecPool == InitPool /\ [][NextPool]_vars

\* timers fire, a pending connect completes, and the pool hands a free
\* connection to a caller that waits for one; nothing makes the holders of
\* the connections give them back
SpecPoolFair ==
    /\ SpecPool
    /\ \A c \in Callers : WF_vars(GetPoolConnected(c))
    /\ \A c \in Callers : WF_vars(PoolTimeout(c))
    /\ \A c \in Callers : SF_vars(PoolAcquire(c))

----------------------------------------------------------------------------
(* The authentication gate: one visitor, any header, every item endpoint,
   while the clock runs and tokens expire *)

InitGate ==
    /\ variant \in Variants
    /\ config = Production
    /\ db = NewDatabase(variant)
    /\ now = 0
    /\ users = (1 :> NewUserRow(1, Alice, 0)) @@ (2 :> NewUserRow(2, Bob, 0))
    /\ nextUserId = 3
    /\ items = <<>>
    /\ nextItemId = 1
    /\ issued = {generateToken(users[1], 0), generateToken(users[2], 0)}
    /\ reqs = [c \in Visitors |-> Idle]

NextGate ==
    \/ \E c \in Visitors : GetAllItems(c)
    \/ \E c \in Visitors : GetMyItems(c)
    \/ \E c \in Visitors : GetItemById(c)
    \/ \E c \in Visitors : CreateItem(c)
    \/ \E c \in Visitors : UpdateItem(c)
    \/ \E c \in Visitors : UpdateItemWrite(c)
    \/ \E c \in Visitors : DeleteItem(c)
    \/ \E c \in Visitors : DeleteItemWrite(c)
    \/ Tick

SpecGate == InitGate /\ [][NextGate]_vars

----------------------------------------------------------------------------
(* Properties *)

\* the request of client c has been answered
Done(c) == reqs[c].pc = "done"

\* client c starts a request in this step
Arrives(c) == Free(c) /\ reqs'[c] # reqs[c]

\* the header carries a token the server issued that has not expired
ValidBearer(header, clock) ==
    /\ header # Absent
    /\ header.scheme = "Bearer"
    /\ header.credentials # <<>>
    /\ header.credentials[1] \in issued
    /\ clock < header.credentials[1].payload.exp

\* C1: every step that changes or removes a stored item is the write of an
\* update / delete request that passed the gate with a token of the item's
\* owner, whatever requests of other users interleave between the ownership
\* lookup and the write by id.
OnlyOwnerWrites ==
    [][\A i \in DOMAIN items :
          (i \notin DOMAIN items' \/ items'[i] # items[i]) =>
              \E c \in DOMAIN reqs :
                  /\ reqs[c].pc \in {"update", "delete"}
                  /\ reqs'[c].pc = "done"
                  /\ reqs[c].id = i
                  /\ reqs[c].user.id = items[i].userId
                  /\ \E t \in issued :
                        /\ reqs[c].header = Bearer(t)
                        /\ t.payload.id = items[i].userId]_vars

\* an owner's write went through while another user's request for the same
\* item was turned away
OnlyOwnerWrites_Witness ==
    \E c, d \in DOMAIN reqs :
        /\ Done(c) /\ Done(d)
        /\ reqs[c].op \in {"update", "delete"}
        /\ reqs[d].op \in {"update", "delete"}
        /\ reqs[c].res.status = 200
        /\ reqs[d].res.status = 404
        /\ reqs[c].id = reqs[d].id
        /\ reqs[c].user # Absent /\ reqs[d].user # Absent
        /\ reqs[c].user.id # reqs[d].user.id

\* C2: an update or delete of an existing item by an authenticated user who
\* is not its owner is answered 404 'Item not found or unauthorized', the
\* very answer given for an id that does not exist, and the step leaves the
\* items table as it was.
NonOwnerIsNotFound ==
    [][\A c \in DOMAIN reqs :
          LET r == reqs'[c]
          IN  (/\ Arrives(c)
               /\ r.op \in {"update", "delete"}
               /\ r.user # Absent
               /\ r.id \in ItemIds
               /\ \/ r.id \notin DOMAIN items
                  \/ items[r.id].userId # r.user.id)
              => /\ r.pc = "done"
                 /\ r.res = Fail(404, "Item not found or unauthorized")
                 /\ items' = items]_vars

\* a user who is not the owner of a stored item asked to update or delete it
NonOwnerIsNotFound_Witness ==
    \E c \in DOMAIN reqs :
        /\ Done(c)
        /\ reqs[c].op \in {"update", "delete"}
        /\ reqs[c].user # Absent
        /\ reqs[c].id \in DOMAIN items
        /\ items[reqs[c].id].userId # reqs[c].user.id
        /\ reqs[c].res.status = 404

\* C10: the write of updateItem by the owner gives every field present in the
\* request body (among name, description, price, category) the body's value
\* and leaves every omitted field, the id and the owner id as they were.
PartialUpdate ==
    [][\A c \in DOMAIN reqs :
          (/\ reqs[c].pc = "update"
           /\ reqs'[c].pc = "done"
           /\ reqs[c].id \in DOMAIN items
           /\ reqs[c].user.id = items[reqs[c].id].userId)
          => LET id == reqs[c].id
                 b  == reqs[c].body
             IN  /\ id \in DOMAIN items'
                 /\ \A f \in ItemFields :
                       items'[id][f] = IF f \in DOMAIN b THEN b[f]
                                       ELSE items[id][f]
                 /\ items'[id].id = id
                 /\ items'[id].userId = items[id].userId
                 /\ reqs'[c].res.status = 200
                 /\ reqs'[c].res.body.data.item = items'[id]]_vars

\* an update of price alone was written: name, description and category are
\* those the item was created with
PartialUpdate_Witness ==
    \E c \in DOMAIN reqs :
        /\ Done(c)
        /\ reqs[c].op = "update"
        /\ reqs[c].res.status = 200
        /\ reqs[c].id \in DOMAIN items
        /\ items[reqs[c].id] = reqs[c].res.body.data.item
        /\ items[reqs[c].id].price = 3
        /\ items[reqs[c].id].name = "Desk"
        /\ items[reqs[c].id].description = NULL
        /\ items[reqs[c].id].category = "c1"

\* the six item endpoints
ItemOps == {"getAll", "getMy", "getById", "create", "update", "delete"}

\* C8: a request to any of the six item endpoints that does not carry a
\* valid, unexpired bearer token is answered 401 by the gate: req.user is never
\* set, the response carries no data, and no item is created, changed or removed.
GateBeforeItems ==
    [][\A c \in DOMAIN reqs :
          (/\ Arrives(c)
           /\ reqs'[c].op \in ItemOps
           /\ ~ValidBearer(reqs'[c].header, now))
          => /\ reqs'[c].pc = "done"
             /\ reqs'[c].res.status = 401
             /\ reqs'[c].user = Absent
             /\ DOMAIN reqs'[c].res.body = {"success", "message"}
             /\ items' = items
             /\ nextItemId' = nextItemId]_vars

\* a token the server issued was presented after its expiry, while an item
\* was stored, and was turned away
GateBeforeItems_Witness ==
    \E c \in DOMAIN reqs :
        /\ Done(c)
        /\ reqs[c].op \in ItemOps
        /\ reqs[c].header \in {Bearer(t) : t \in {u \in issued : u.payload.exp <= now}}
        /\ reqs[c].res.status = 401
        /\ DOMAIN items # {}

\* C3: whatever register requests interleave, no two stored users share a
\* username and no two stored users share an email.
UniqueUsers ==
    \A i, j \in DOMAIN users :
        i # j => /\ users[i].username # users[j].username
                 /\ users[i].email # users[j].email

\* two register requests passed both existence checks before either
\* persisted: one was stored, the insert of the other was rejected
UniqueUsers_Witness ==
    \E c, d \in DOMAIN reqs :
        /\ Done(c) /\ Done(d)
        /\ reqs[c].op = "register" /\ reqs[d].op = "register"
        /\ reqs[c].res.status = 201
        /\ reqs[d].res.status \in {409, 500}
        /\ Cardinality(DOMAIN users) = 1

\* C4: a register request whose username is stored when usernameExists runs
\* is answered 400 'Username already exists' whatever its email; one that
\* passed the username check and whose email is stored when emailExists runs
\* is answered 400 'Email already exists'; either step leaves the users
\* table as it was and issues no token.
ConflictOnRegister ==
    [][\A c \in DOMAIN reqs :
          LET r == reqs'[c]
          IN  /\ (/\ Arrives(c)
                  /\ r.op = "register"
                  /\ \E i \in DOMAIN users : users[i].username = r.body.username)
                 => /\ r.pc = "done"
                    /\ r.res = Fail(400, "Username already exists")
                    /\ users' = users
                    /\ issued' = issued
              /\ (/\ reqs[c].pc = "emailExists"
                  /\ r # reqs[c]
                  /\ \E i \in DOMAIN users : users[i].email = reqs[c].body.email)
                 => /\ r.pc = "done"
                    /\ r.res = Fail(400, "Email already exists")
                    /\ users' = users
                    /\ issued' = issued]_vars

\* a stored username came with an email nobody holds, and a stored email
\* came with a username nobody holds: both were answered 400
ConflictOnRegister_Witness ==
    \E c, d \in DOMAIN reqs :
        /\ Done(c) /\ Done(d)
        /\ reqs[c].op = "register" /\ reqs[d].op = "register"
        /\ reqs[c].res = Fail(400, "Username already exists")
        /\ \A i \in DOMAIN users : users[i].email # reqs[c].body.email
        /\ reqs[d].res = Fail(400, "Email already exists")
        /\ \A i \in DOMAIN users : users[i].username # reqs[d].body.username

\* the text fields of a user object
TextFields == {"username", "email", "password", "firstName", "lastName"}

\* C5: no response of register, login or GET /auth/me carries a stored
\* password hash: the user object has no password field, none of its fields
\* holds a stored hash, and the token's payload has no field beyond the
\* claims and the two timestamps.
NoHashInResponse ==
    \A c \in DOMAIN reqs :
        (Done(c) /\ reqs[c].op \in {"register", "login", "profile"}) =>
            LET body == reqs[c].res.body
            IN  /\ body.message \notin {users[i].password : i \in DOMAIN users}
                /\ "data" \in DOMAIN body =>
                     /\ "password" \notin DOMAIN body.data.user
                     /\ \A f \in DOMAIN body.data.user \cap TextFields :
                           body.data.user[f] \notin
                               {users[i].password : i \in DOMAIN users}
                     /\ "token" \in DOMAIN body.data =>
                           DOMAIN body.data.token.payload =
                               {"id", "username", "email", "iat", "exp"}

\* a login and a profile request were both answered with a user object
NoHashInResponse_Witness ==
    \E c, d \in DOMAIN reqs :
        /\ Done(c) /\ Done(d)
        /\ reqs[c].op = "login" /\ reqs[c].res.status = 200
        /\ reqs[d].op = "profile" /\ reqs[d].res.status = 200
        /\ reqs[c].res.body.data.user.id = reqs[d].res.body.data.user.id

\* C6: a login with a username nobody holds and a login with a stored
\* username and a wrong password get one and the same answer, 401 'Invalid
\* credentials'; the step changes no stored state and issues no token.
SameLoginFailure ==
    [][\A c \in DOMAIN reqs :
          LET r == reqs'[c]
          IN  (/\ Arrives(c)
               /\ r.op = "login"
               /\ \/ \A i \in DOMAIN users : users[i].username # r.body.username
                  \/ \E i \in DOMAIN users :
                        /\ users[i].username = r.body.username
                        /\ users[i].password # Hash(r.body.password))
              => /\ r.pc = "done"
                 /\ r.res = Fail(401, "Invalid credentials")
                 /\ users' = users
                 /\ nextUserId' = nextUserId
                 /\ items' = items
                 /\ issued' = issued]_vars

\* one client was refused for a username nobody holds, the other for a wrong
\* password of a stored user, with the same response
SameLoginFailure_Witness ==
    \E c, d \in DOMAIN reqs :
        /\ Done(c) /\ Done(d)
        /\ reqs[c].op = "login" /\ reqs[d].op = "login"
        /\ \A i \in DOMAIN users : users[i].username # reqs[c].body.username
        /\ \E i \in DOMAIN users :
              /\ users[i].username = reqs[d].body.username
              /\ users[i].password # Hash(reqs[d].body.password)
        /\ reqs[c].res.status = 401
        /\ reqs[c].res = reqs[d].res

\* the claims {id, username, email} of a record
Claims(rec) == [id |-> rec.id, username |-> rec.username, email |-> rec.email]

\* C7: when register inserts an input whose username and email are not
\* stored, it answers 201 with the user just stored, without a password
\* field, and a token that verifyToken accepts and whose claims
\* {id, username, email} are those of the stored user.
RegisterReturnsUserAndToken ==
    [][\A c \in DOMAIN reqs :
          (/\ reqs[c].pc = "create"
           /\ reqs'[c].pc = "done"
           /\ \A i \in DOMAIN users :
                 /\ users[i].username # reqs[c].body.username
                 /\ users[i].email # reqs[c].body.email)
          => LET r == reqs'[c]
                 d == r.res.body.data
                 v == AuthService_verifyToken(variant, d.token, now')
             IN  /\ r.res.status = 201
                 /\ "password" \notin DOMAIN d.user
                 /\ d.user.id \in DOMAIN users' \ DOMAIN users
                 /\ users'[d.user.id].username = reqs[c].body.username
                 /\ users'[d.user.id].email = reqs[c].body.email
                 /\ Claims(d.user) = Claims(users'[d.user.id])
                 /\ v.ok
                 /\ Claims(v.decoded) = Claims(users'[d.user.id])]_vars

\* a registration was answered 201 with a token of the stored user
RegisterReturnsUserAndToken_Witness ==
    \E c \in DOMAIN reqs :
        /\ Done(c)
        /\ reqs[c].op = "register"
        /\ reqs[c].res.status = 201
        /\ reqs[c].res.body.data.token \in issued
        /\ reqs[c].res.body.data.user.id \in DOMAIN users

\* C9: verify returns the embedded claims for an issued, unexpired token and
\* fails for an expired and for an invalid one, and the failure for an
\* expired token differs from the failure for a token with a wrong signature
\* or no structure, both at the auth gate and in AuthService.verifyToken.
VerifyTellsFailuresApart ==
    [][\A c \in DOMAIN reqs :
          LET p == reqs[c]
              r == reqs'[c]
          IN  /\ (Arrives(c) /\ r.op = "verify") =>
                    LET t == r.body.token
                    IN  IF t \in issued /\ now < t.payload.exp
                            THEN r.res.ok /\ r.res.decoded = t.payload
                        ELSE ~r.res.ok
              /\ (/\ Arrives(c) /\ Done(c)
                  /\ p.op = "verify" /\ r.op = "verify"
                  /\ p.body.token \in issued /\ ~p.res.ok
                  /\ r.body.token \notin issued)
                 => r.res # p.res
              /\ (/\ Arrives(c) /\ Done(c)
                  /\ p.op = "profile" /\ r.op = "profile"
                  /\ p.header \in {Bearer(t) : t \in issued}
                  /\ p.res.status = 401
                  /\ r.header \in {Bearer(t) : t \in Tokens \ issued})
                 => r.res.status = 401 /\ r.res # p.res]_vars

----------------------------------------------------------------------------
(* Validation of item bodies *)

\* answered requests of operation op that passed the auth gate
HandledAs(c, op) ==
    /\ Done(c)
    /\ reqs[c].op = op
    /\ reqs[c].user # Absent

\* C11: creating an item with price -1 fails validation, and creating one
\* with price 0 or with price 99.99 succeeds (201, the row stored with that
\* price).
PriceZeroAndUp ==
    \A c \in DOMAIN reqs :
        (HandledAs(c, "create") /\ reqs[c].body \in PriceBodies) =>
            IF reqs[c].body.price < 0
                THEN reqs[c].res.status = 400
            ELSE /\ reqs[c].res.status = 201
                 /\ reqs[c].res.body.data.item.price = reqs[c].body.price

\* the schema the route of operation op validates against
SchemaOf(op) == IF op = "create" THEN "createItem" ELSE "updateItem"

\* every constraint the body breaks under variant v, in the validator's order
Violated(v, op, body) ==
    SchemaViolations(SchemaOf(op), body)
        \o (IF v # "prisma" /\ ~(DOMAIN body \subseteq ItemFields)
                THEN <<"key is not allowed">> ELSE <<>>)

\* C16: a body that violates k >= 1 constraints of its schema is answered
\* 400 in the very step the request arrives, before any service or
\* data-access call (no statement pending, items table and id sequence
\* untouched), and the failure message is the list of all k violations.
\* The requests meant are those the auth gate admitted; of a PUT the record
\* keeps the body only when it is not empty.
RejectsListingEveryViolation ==
    [][\A c \in DOMAIN reqs :
          LET r == reqs'[c]
          IN  (/\ Arrives(c)
               /\ r.op \in {"create", "update"}
               /\ r.user # Absent
               /\ (r.op = "update" => r.body # Absent)
               /\ Violated(variant, r.op, r.body) # <<>>)
              => /\ r.pc = "done"
                 /\ r.res.status = 400
                 /\ r.res.body = [success |-> FALSE,
                                  message |-> Join(Violated(variant, r.op, r.body))]
                 /\ items' = items
                 /\ nextItemId' = nextItemId]_vars

RejectsListingEveryViolation_Witness ==
    \E c \in DOMAIN reqs :
        /\ HandledAs(c, "create")
        /\ Len(SchemaViolations("createItem", reqs[c].body)) >= 2
        /\ reqs[c].res.status = 400
        /\ items = <<>>

----------------------------------------------------------------------------
(* Listing *)

\* client c holds the result of a finished listPage: of a direct call, or of
\* a GET /items answered from the paginated branch
Paged(c) ==
    /\ Done(c)
    /\ \/ reqs[c].op = "listPage"
       \/ /\ reqs[c].op = "getAll"
          /\ reqs[c].res.status = 200
          /\ "pagination" \in DOMAIN reqs[c].res.body.data

ResultOf(c) ==
    IF reqs[c].op = "listPage" THEN reqs[c].res ELSE reqs[c].res.body.data

Max(a, b) == IF a >= b THEN a ELSE b

\* C12: over a store of total items, listPage(page, pageSize) with page >= 1
\* and pageSize >= 1 returns min(pageSize, max(0, total - (page-1)*pageSize))
\* items, pagination.total = total and pagination.totalPages =
\* ceil(total / pageSize), the least number of pages that hold total items.
PageCounts ==
    \A c \in DOMAIN reqs :
        Paged(c) =>
            LET r     == ResultOf(c)
                total == Cardinality(DOMAIN items)
                page  == r.pagination.page
                size  == r.pagination.limit
                tp    == r.pagination.totalPages
                asked == reqs[c].body
            IN  /\ page >= 1 /\ size >= 1
                /\ "page" \in DOMAIN asked =>
                      page = IF reqs[c].op = "listPage" THEN asked.page
                             ELSE parseInt(asked.page)
                /\ "limit" \in DOMAIN asked =>
                      size = IF reqs[c].op = "listPage" THEN asked.limit
                             ELSE parseInt(asked.limit)
                /\ Len(r.items) = Min(size, Max(0, total - (page - 1) * size))
                /\ r.pagination.total = total
                /\ tp * size >= total
                /\ (tp - 1) * size < total

PageCounts_Witness ==
    \E c \in DOMAIN reqs :
        /\ Paged(c)
        /\ Cardinality(DOMAIN items) = 3
        /\ ResultOf(c).pagination.page = 2
        /\ ResultOf(c).pagination.limit = 2
        /\ Len(ResultOf(c).items) = 1
        /\ ResultOf(c).pagination.totalPages = 2

\* C13: listPage uses page 1 when page is unset and pageSize 10 when pageSize
\* is unset, on every path that reaches it: the direct repository call, and
\* a GET /items that carries page or limit (also only one of the two) is
\* answered with the page those values and defaults select.
DefaultsOnEveryPath ==
    \A c \in DOMAIN reqs :
        LET asked == reqs[c].body
        IN  /\ (Done(c) /\ reqs[c].op = "listPage") =>
                  /\ reqs[c].res.pagination.page =
                        (IF "page" \in DOMAIN asked THEN asked.page ELSE 1)
                  /\ reqs[c].res.pagination.limit =
                        (IF "limit" \in DOMAIN asked THEN asked.limit ELSE 10)
            /\ (/\ Done(c)
                /\ reqs[c].op = "getAll"
                /\ reqs[c].res.status = 200
                /\ ("page" \in DOMAIN asked \/ "limit" \in DOMAIN asked)) =>
                  /\ "pagination" \in DOMAIN reqs[c].res.body.data
                  /\ reqs[c].res.body.data.pagination.page =
                        (IF "page" \in DOMAIN asked
                            THEN parseInt(asked.page) ELSE 1)
                  /\ reqs[c].res.body.data.pagination.limit =
                        (IF "limit" \in DOMAIN asked
                            THEN parseInt(asked.limit) ELSE 10)

\* C15: in every variant search(term) returns exactly the stored items whose
\* name contains term as a substring when letter case is ignored.
SearchIgnoresCase ==
    \A c \in DOMAIN reqs :
        (/\ Done(c)
         /\ reqs[c].op = "getAll"
         /\ reqs[c].res.status = 200
         /\ "search" \in DOMAIN reqs[c].body) =>
            reqs[c].res.body.data.items =
                {items[i] : i \in {j \in DOMAIN items :
                    \E k \in 0..Len(items[j].name) :
                        /\ k + Len(reqs[c].body.search) <= Len(items[j].name)
                        /\ \A n \in 1..Len(reqs[c].body.search) :
                              Lower(items[j].name[k + n])
                                  = Lower(reqs[c].body.search[n])}}

----------------------------------------------------------------------------
(* Ownership of what is created and listed *)

\* C14: create stores the item with the owner id of the caller's verified
\* token, and GET /items/my for caller u returns exactly the stored items
\* whose owner id is u: all of them and no item of any other user.
OwnItemsOnly ==
    [][\A c \in DOMAIN reqs :
          LET r == reqs'[c]
          IN  (Arrives(c) /\ ValidBearer(r.header, now)) =>
                LET u == r.header.credentials[1].payload.id
                IN  /\ (r.op = "create" /\ r.res.status = 201) =>
                          \E i \in DOMAIN items' \ DOMAIN items :
                              /\ items'[i].userId = u
                              /\ r.res.body.data.item = items'[i]
                              /\ DOMAIN items' = DOMAIN items \cup {i}
                    /\ r.op = "getMy" =>
                          /\ r.res.status = 200
                          /\ r.res.body.data.items =
                                {items[i] : i \in {j \in DOMAIN items :
                                                     items[j].userId = u}}]_vars

\* one user was shown the stored item as their own while the other user was
\* shown none
OwnItemsOnly_Witness ==
    \E c, d \in DOMAIN reqs :
        /\ Done(c) /\ Done(d)
        /\ reqs[c].op = "getMy" /\ reqs[d].op = "getMy"
        /\ reqs[c].res.status = 200 /\ reqs[d].res.status = 200
        /\ reqs[c].user.id # reqs[d].user.id
        /\ items # <<>>
        /\ reqs[c].res.body.data.items = {items[i] : i \in DOMAIN items}
        /\ reqs[d].res.body.data.items = {}

----------------------------------------------------------------------------
(* The life of a stored user *)

\* client c's login is answered 200 in this step
LoginSucceeds(c) ==
    /\ reqs[c].op = "login"
    /\ reqs[c].pc = "updateLastLogin"
    /\ reqs'[c].pc = "done"
    /\ reqs'[c].res.status = 200

----------------------------------------------------------------------------
(* The response envelope *)

\* C19: every response is an envelope whose boolean success is true exactly
\* when the status is below 400; a successful response is
\* {success: true, message, data}, a failure has success = false and a
\* message.
EnvelopeEverywhere ==
    \A c \in DOMAIN reqs :
        Done(c) =>
            LET b == reqs[c].res.body
            IN  /\ {"success", "message"} \subseteq DOMAIN b
                /\ b.success \in BOOLEAN
                /\ b.success <=> reqs[c].res.status < 400
                /\ b.message # ""
                /\ b.success => DOMAIN b = {"success", "message", "data"}

\* a failure of a statement without a message was answered 500, with a
\* message, by the default branch
EnvelopeEverywhere_Witness ==
    \E c \in DOMAIN reqs :
        /\ Done(c)
        /\ reqs[c].op = "getAll"
        /\ reqs[c].user # Absent
        /\ reqs[c].res.status = 500
        /\ reqs[c].res.body.message = "Internal server error"

\* C20: when the process runs with NODE_ENV = 'production', no response of
\* any error path carries a stack trace; a stack trace appears only outside
\* production.
NoStackInProduction ==
    \A c \in DOMAIN reqs :
        (Done(c) /\ "stack" \in DOMAIN reqs[c].res.body) =>
            config.NODE_ENV # "production"

\* in production the default branch answered a failed statement 500, and
\* the body is the bare failure envelope
NoStackInProduction_Witness ==
    \E c \in DOMAIN reqs :
        /\ Done(c)
        /\ config.NODE_ENV = "production"
        /\ reqs[c].op = "getAll"
        /\ reqs[c].res.status = 500
        /\ reqs[c].res.body = [success |-> FALSE,
                               message |-> "Internal server error"]

----------------------------------------------------------------------------
(* Writes that find their row gone *)

\* C26: when the owner's item was deleted by another request between
\* updateItem's ownership lookup and its write, the update is answered 404
\* (not a 5xx), no item with that id exists afterwards and no other item is
\* modified.
UpdateOfDeletedIs404 ==
    [][\A c \in DOMAIN reqs :
          (/\ reqs[c].pc = "update"
           /\ reqs'[c].pc = "done"
           /\ reqs[c].id \notin DOMAIN items)
          => /\ reqs'[c].res.status = 404
             /\ reqs[c].id \notin DOMAIN items'
             /\ items' = items]_vars

\* C27: every stored item is reported as deleted at most once: of two
\* delete requests of the owner that both passed the ownership lookup, the
\* one whose DELETE removed the row is answered 200 'Item deleted
\* successfully' and the one that found the row gone is answered 404.
DeletedAtMostOnce ==
    [][\A c \in DOMAIN reqs :
          (reqs[c].pc = "delete" /\ reqs'[c].pc = "done")
          => IF reqs[c].id \in DOMAIN items
                 THEN /\ reqs'[c].res.status = 200
                      /\ reqs[c].id \notin DOMAIN items'
             ELSE /\ reqs'[c].res.status = 404
                  /\ items' = items]_vars

----------------------------------------------------------------------------
(* Concurrent registration *)

\* C24: of two register requests with the same username (or the same
\* email) that both passed the existence checks before either inserted,
\* the first to insert is answered 201 and the other is answered with the
\* 400 conflict response, and with no other status.
RaceLoserIsConflict ==
    [][\A c \in DOMAIN reqs :
          (reqs[c].pc = "create" /\ reqs'[c].pc = "done")
          => IF \E i \in DOMAIN users :
                    \/ users[i].username = reqs[c].body.username
                    \/ users[i].email = reqs[c].body.email
                 THEN /\ reqs'[c].res.status = 400
                      /\ users' = users
             ELSE reqs'[c].res.status = 201]_vars

\* C25: a register request answered with a failure leaves the stored users
\* as they were; a user row is added only by a request answered 201 with a
\* token
RegisterAllOrNothing ==
    [][\A c \in DOMAIN reqs :
          (reqs[c].pc \in {"emailExists", "create"} /\ reqs'[c].pc = "done")
          => IF reqs'[c].res.status = 201
                 THEN /\ "token" \in DOMAIN reqs'[c].res.body.data
                      /\ DOMAIN users' # DOMAIN users
             ELSE users' = users]_vars

\* a GET /auth/me that presented a token the server issued and that had not
\* expired when the request was answered
ProfileWithIssuedToken(c) ==
    /\ reqs[c].op = "profile"
    /\ reqs[c].pc = "done"
    /\ reqs[c].user # Absent

\* C28: every token issued by register or login carries the id, username and
\* email of a user that is stored, and GET /auth/me presented with an issued,
\* unexpired token is never answered 404
IssuedTokensNameStoredUsers ==
    /\ \A t \in issued :
          \E i \in DOMAIN users :
              /\ users[i].id = t.payload.id
              /\ users[i].username = t.payload.username
              /\ users[i].email = t.payload.email
    /\ \A c \in DOMAIN reqs :
          ProfileWithIssuedToken(c)
          => /\ reqs[c].res.status = 200
             /\ reqs[c].res.body.data.user.id = reqs[c].user.id
             /\ reqs[c].res.body.data.user.username = reqs[c].user.username
             /\ reqs[c].res.body.data.user.email = reqs[c].user.email

\* a profile read with a token issued by login after the token issued by
\* register has expired
IssuedTokensNameStoredUsers_Witness ==
    /\ Cardinality(issued) >= 2
    /\ now >= TTL
    /\ \E c \in DOMAIN reqs :
          /\ ProfileWithIssuedToken(c)
          /\ reqs[c].res.status = 200

\* the rows of a page, as a set
RowsOf(page) == {page[i] : i \in 1..Len(page)}

\* a listPage call that has returned
Listed(c) == reqs[c].op = "listPage" /\ reqs[c].pc = "done"

\* C29: while the item store does not change, pages of the same pageSize and
\* different page numbers share no item, and pages 1..totalPages together
\* hold every item
PagesPartitionItems ==
    \A c, d \in DOMAIN reqs :
        (/\ Listed(c) /\ Listed(d)
         /\ reqs[c].res.pagination.limit = reqs[d].res.pagination.limit
         /\ reqs[c].res.pagination.page < reqs[d].res.pagination.page)
        => /\ RowsOf(reqs[c].res.items) \cap RowsOf(reqs[d].res.items) = {}
           /\ (/\ reqs[c].res.pagination.page = 1
               /\ reqs[d].res.pagination.page = 2
               /\ reqs[c].res.pagination.totalPages = 2)
              => RowsOf(reqs[c].res.items) \cup RowsOf(reqs[d].res.items)
                     = {items[i] : i \in DOMAIN items}

\* the query string of a GET /items request
QueryOf(c) == IF reqs[c].pc = "count" THEN reqs[c].body.input ELSE reqs[c].body

\* C30: a GET /items request that takes the paginated branch hands the data
\* layer integers page >= 1 and limit >= 1, so the offset is not negative and
\* totalPages is a finite integer
PagedBranchArguments ==
    \A c \in DOMAIN reqs :
        (/\ reqs[c].op = "getAll"
         /\ reqs[c].user # Absent
         /\ Truthy(QueryOf(c), "page")
         /\ Truthy(QueryOf(c), "limit"))
        => /\ IsNumeric(QueryOf(c).page)
           /\ IsNumeric(QueryOf(c).limit)
           /\ parseInt(QueryOf(c).page) >= 1
           /\ parseInt(QueryOf(c).limit) >= 1
           /\ (parseInt(QueryOf(c).page) - 1) * parseInt(QueryOf(c).limit) >= 0
           /\ reqs[c].pc = "done"
              => /\ reqs[c].res.status = 200
                 /\ reqs[c].res.body.data.pagination.totalPages \in 0..MaxRows

\* a request to an item or auth endpoint that has been answered with a
\* failure response
Failed(c) ==
    /\ reqs[c].pc = "done"
    /\ reqs[c].op \in {"getAll", "getMy", "getById", "create", "update",
                       "delete", "register", "login", "profile"}
    /\ reqs[c].res.status >= 400

\* C21: no failure is silently swallowed: before a request is answered with
\* a failure, the failure is logged in an entry that carries the request's
\* method and path
FailuresAreLogged ==
    \A c \in DOMAIN reqs :
        Failed(c)
        => \E i \in 1..Len(reqs[c].log) :
               /\ reqs[c].log[i].level = "error"
               /\ reqs[c].log[i].method = Route(reqs[c].op).method
               /\ reqs[c].log[i].path = Route(reqs[c].op).path

\* C23: whatever the interleaving of the calls of getPool, the pool is
\* created (sql.connect, new Pool) at most once
PoolCreatedOnce == db.created <= 1

\* C22: a request that waits for a connection of the exhausted pool and
\* does not get one ends with a failure response of status 500 or 503 that
\* leaves the stored data as it was; it does not wait forever
ExhaustedPoolFails ==
    /\ [][\A c \in Callers :
              (/\ reqs[c].pc = "acquire"
               /\ db.inUse = PoolMax
               /\ reqs'[c].pc = "done")
              => /\ reqs'[c].res.status \in {500, 503}
                 /\ items' = items
                 /\ users' = users]_vars
    /\ \A c \in Callers :
          (reqs[c].pc = "acquire" /\ db.inUse = PoolMax)
              ~> (reqs[c].pc = "done" \/ db.inUse < PoolMax)

====
